---- MODULE Spec2Model ----
(***************************************************************************)
(* Heal-Connect: the role-gated clinical record API (server/routes.ts),    *)
(* its row store (server/storage.ts) and the role helpers of               *)
(* shared/schema.ts, as a state machine.  One action per route; every      *)
(* route is a pure operator from (store, request) to (store, response),    *)
(* so that a response can be compared across stores and across audit-write *)
(* outcomes.                                                               *)
(***************************************************************************)
EXTENDS Integers, Sequences, FiniteSets, TLC

VARIABLES
    users,            \* users table: id -> role column
    plans,            \* treatment_plans rows [id, clientId]
    goals,            \* treatment_goals rows [id, planId]
    objectives,       \* treatment_objectives rows [id, goalId]
    progress,         \* treatment_progress rows [id, objectiveId, progressLevel]
    journals,         \* journals rows [id, userId, isShared]
    disclosures,      \* data_disclosures rows [id, clientId, disclosedBy]
    prompts,          \* prompts rows [id, clientId, isActive]
    resources,        \* resources rows [id, clientId]
    homework,         \* homework rows [id, userId, status]
    nextId,           \* serial primary-key counters, per table
    auditLogs,        \* audit_logs rows, in insertion order
    sessionActivity,  \* session_activity rows [sessionId, userId, lastActivity]
    sessions,         \* session store: session id -> logged-in principal
    now,              \* wall clock, in minutes
    last,             \* the request being answered and its response
    probe,            \* inputs and result of a role-helper evaluation
    calls,            \* requests in flight, step by step: process -> position and locals
    notifier          \* the browser's ReminderNotifier component and its clock

vars == <<users, plans, goals, objectives, progress, journals, disclosures, prompts, resources, homework, nextId,
          auditLogs, sessionActivity, sessions, now, last, probe, calls, notifier>>

\* ------------------------------------------------------------------ bounds

MaxPlans == 2
MaxGoals == 1
MaxObjectives == 1
MaxProgress == 1
MaxJournals == 1
MaxDisclosures == 1
MaxPrompts == 1
MaxResources == 1
MaxHomework == 1
MaxAudit == 1
MaxTime == 62

MaxShort == 1       \* minutes in which the clock also advances by single minutes
MaxTimeouts == 2    \* session_timeout entries written by requests in flight

MaxClock == 13      \* the browser clock runs to this many half minutes
MaxShown == 3       \* notifications shown by the browser

\* ----------------------------------------------------------- value domains

Users == {"u1", "u2", "u3"}
Sids == {"s1", "s2", "s3"}
None == "none"              \* null / undefined, for string-valued fields
NoCookie == "nocookie"      \* a request that carries no session cookie

PlanIds == 1..MaxPlans
GoalIds == 1..MaxGoals
ObjectiveIds == 1..MaxObjectives
ProgressLevels == {50, 150}
PromptIds == 1..MaxPrompts
ResourceIds == 1..MaxResources
HomeworkIds == 1..MaxHomework

\* ------------------------------------------------- shared/schema.ts: roles

\* ROLE_HIERARCHY own keys
RoleNames == {"therapist", "office_admin", "client"}

\* Role strings used as inputs: the three roles, the empty string, unknown
\* strings, a differently-cased role and two keys that a JS object inherits
\* from Object.prototype.
RoleStrings == RoleNames \cup {"", "admin", "Therapist", "constructor", "toString"}

\* ROLE_HIERARCHY[key]: a number for an own key, an inherited function for a
\* key of Object.prototype (-1 stands for that non-numeric value), undefined
\* (0 after "|| 0") otherwise.
NotANumber == -1
ROLE_HIERARCHY(key) ==
    CASE key = "therapist" -> 3
      [] key = "office_admin" -> 2
      [] key = "client" -> 1
      [] key \in {"constructor", "toString"} -> NotANumber
      [] OTHER -> 0

\* hasRolePermission with ">" for ">=" (mutant)
hasRolePermission_strict(userRole, requiredRole) ==
    LET userLevel == ROLE_HIERARCHY(userRole)
        requiredLevel == ROLE_HIERARCHY(requiredRole)
    IN  IF userLevel = NotANumber THEN FALSE ELSE userLevel > requiredLevel

\* userLevel >= requiredLevel; a comparison with a non-number is false
hasRolePermission(userRole, requiredRole) ==
    LET userLevel == ROLE_HIERARCHY(userRole)
        requiredLevel == ROLE_HIERARCHY(requiredRole)
    IN  IF userLevel = NotANumber THEN FALSE ELSE userLevel >= requiredLevel

isTherapistRole(role) == role = "therapist"

\* isOfficeAdminRole without the therapist disjunct (mutant)
isOfficeAdminRole_adminOnly(role) == role = "office_admin"

isOfficeAdminRole(role) == role = "office_admin" \/ role = "therapist"

\* the rank of the specification: 3, 2, 1, and 0 for any other string
rank(r) ==
    IF r = "therapist" THEN 3
    ELSE IF r = "office_admin" THEN 2
    ELSE IF r = "client" THEN 1
    ELSE 0

\* ------------------------------------------------------------ the store

\* The row store as one value, so that a route is a function of it.
DB ==
    [users |-> users, plans |-> plans, goals |-> goals,
     objectives |-> objectives, progress |-> progress, journals |-> journals,
     disclosures |-> disclosures, prompts |-> prompts, resources |-> resources,
     homework |-> homework, nextId |-> nextId,
     auditLogs |-> auditLogs, sessionActivity |-> sessionActivity,
     sessions |-> sessions]

\* storage.getUser: the row, or undefined when no row has this id
getUser(db, id) ==
    IF id \in DOMAIN db.users
    THEN [found |-> TRUE, role |-> db.users[id]]
    ELSE [found |-> FALSE, role |-> ""]

\* storage.updateUserRole: UPDATE ... WHERE id = :id (no row, no change)
updateUserRole(db, id, role) ==
    IF id \in DOMAIN db.users
    THEN [db EXCEPT !.users = [db.users EXCEPT ![id] = role]]
    ELSE db

\* storage.getTreatmentPlan: the rows of this client (client_id is unique)
getTreatmentPlan(db, clientId) == {p \in db.plans : p.clientId = clientId}

getAllTreatmentPlans(db) == db.plans

getGoals(db, planId) == {g \in db.goals : g.planId = planId}

getObjectives(db, goalId) == {o \in db.objectives : o.goalId = goalId}

getProgress(db, objectiveId) == {x \in db.progress : x.objectiveId = objectiveId}

\* storage.getSharedJournals: the client's rows with is_shared = true
\* storage.getSharedJournals without the is_shared condition (mutant)
getSharedJournals_all(db, clientId) == {j \in db.journals : j.userId = clientId}

\* storage.getSharedJournals: the rows of one user that are flagged shared
getSharedJournals(db, clientId) ==
    {j \in db.journals : j.userId = clientId /\ j.isShared}

\* storage.getJournals: the rows of one user
getJournals(db, userId) == {j \in db.journals : j.userId = userId}

\* storage.getPrompts(): the active prompts; the method has no parameter
getPrompts(db) == {p \in db.prompts : p.isActive}

\* storage.getResources that ignores its argument (mutant)
getResources_unscoped(db, clientId) == db.resources

\* storage.getResources(clientId?): with a client id, the rows scoped to it
\* and the unscoped ones; without, every row
getResources(db, clientId) ==
    IF clientId \notin {None, ""}
    THEN {r \in db.resources : r.clientId = clientId \/ r.clientId = None}
    ELSE db.resources

\* storage.getHomework / getAllHomework
getHomework(db, userId) == {h \in db.homework : h.userId = userId}

getAllHomework(db) == db.homework

\* storage.getClientDataAccessLogs: the entries whose target is the client
getClientDataAccessLogs(db, clientId) ==
    {db.auditLogs[i] : i \in {k \in 1..Len(db.auditLogs) :
        db.auditLogs[k].targetUserId = clientId}}

\* storage.getAuditLogs(userId?, startDate?): the filter is on the user_id
\* column; None / -1 stand for an absent argument
getAuditLogs(db, userId, startDate) ==
    {db.auditLogs[i] : i \in {k \in 1..Len(db.auditLogs) :
        /\ (userId # None => db.auditLogs[k].userId = userId)
        /\ (startDate # -1 => db.auditLogs[k].createdAt >= startDate)}}

\* storage.getSessionActivity: const [activity] = SELECT ... WHERE session_id
getSessionActivity(db, sessionId) ==
    LET idx == {i \in 1..Len(db.sessionActivity) :
                    db.sessionActivity[i].sessionId = sessionId}
    IN  IF idx = {} THEN {}
        ELSE {db.sessionActivity[CHOOSE i \in idx : \A j \in idx : i <= j]}

\* storage.updateSessionActivity: update every row of the session to the
\* current time, or insert one when the lookup finds none
updateSessionActivity(db, sessionId, userId, t) ==
    IF getSessionActivity(db, sessionId) # {}
    THEN [db EXCEPT !.sessionActivity =
            [i \in 1..Len(db.sessionActivity) |->
                IF db.sessionActivity[i].sessionId = sessionId
                THEN [db.sessionActivity[i] EXCEPT !.lastActivity = t]
                ELSE db.sessionActivity[i]]]
    ELSE [db EXCEPT !.sessionActivity =
            Append(db.sessionActivity,
                   [sessionId |-> sessionId, userId |-> userId, lastActivity |-> t])]

\* the UPDATE of updateSessionActivity: every row of the session gets t
setSessionActivity(db, sessionId, t) ==
    [db EXCEPT !.sessionActivity =
        [i \in 1..Len(db.sessionActivity) |->
            IF db.sessionActivity[i].sessionId = sessionId
            THEN [db.sessionActivity[i] EXCEPT !.lastActivity = t]
            ELSE db.sessionActivity[i]]]

\* the INSERT of updateSessionActivity: session_id carries no unique constraint
insertSessionActivity(db, sessionId, userId, t) ==
    [db EXCEPT !.sessionActivity =
        Append(db.sessionActivity,
               [sessionId |-> sessionId, userId |-> userId, lastActivity |-> t])]

\* ---------------------------------------------------------- audit recorder

SESSION_TIMEOUT_MINUTES == 30

AuditEntry(userId, action, resourceType, resourceId, targetUserId, t) ==
    [userId |-> userId, action |-> action, resourceType |-> resourceType,
     resourceId |-> resourceId, targetUserId |-> targetUserId, createdAt |-> t]

\* createAuditEntry without its try/catch: the store's error propagates (mutant)
createAuditEntry_uncaught(db, entry, dbOk) ==
    IF dbOk
    THEN [db |-> [db EXCEPT !.auditLogs = Append(db.auditLogs, entry)],
          threw |-> FALSE, audit |-> "written"]
    ELSE [db |-> db, threw |-> TRUE, audit |-> "failed"]

\* createAuditEntry that keeps only the newest entry (mutant)
createAuditEntry_overwrite(db, entry, dbOk) ==
    IF dbOk
    THEN [db |-> [db EXCEPT !.auditLogs = <<entry>>], threw |-> FALSE,
          audit |-> "written"]
    ELSE [db |-> db, threw |-> FALSE, audit |-> "failed"]

\* createAuditEntry: try { await storage.createAuditLog(...) } catch { log }.
\* dbOk is whether the store accepts the insert; the error is swallowed, so
\* nothing is thrown to the caller and nothing is retried.
createAuditEntry(db, entry, dbOk) ==
    IF dbOk
    THEN [db |-> [db EXCEPT !.auditLogs = Append(db.auditLogs, entry)],
          threw |-> FALSE, audit |-> "written"]
    ELSE [db |-> db, threw |-> FALSE, audit |-> "failed"]

\* ------------------------------------------------------- request pipeline

\* The request object as a middleware sees it.
\*   hasFn     : req.isAuthenticated is defined
\*   authed    : req.isAuthenticated()
\*   sessionID : req.sessionID
\*   sub       : req.user?.claims?.sub
Req(hasFn, authed, sessionID, sub) ==
    [hasFn |-> hasFn, authed |-> authed, sessionID |-> sessionID, sub |-> sub]

\* The request when it reaches the middleware registered at routes.ts:136.
\* The session and passport middlewares are installed by setupAuth(app), which
\* registerRoutes calls later (routes.ts:162), so they have not run yet: the
\* request has no session id and no principal.
ReqAtMount(db, sid) == Req(FALSE, FALSE, None, None)

\* The request after the middlewares that setupAuth installs: the cookie's
\* session is loaded and its principal, if any, is attached.
ReqAfterSetupAuth(db, sid) ==
    IF sid \in Sids
    THEN Req(TRUE, db.sessions[sid] # None, sid, db.sessions[sid])
    ELSE Req(TRUE, FALSE, None, None)

\* the isAuthenticated route guard of the auth integration: 401 without a principal
isAuthenticated(req) == req.hasFn /\ req.authed /\ req.sub # None

\* getUserId: null unless req.isAuthenticated(); then the subject claim or null
getUserId(req) ==
    IF ~req.hasFn \/ ~req.authed THEN None
    ELSE IF req.sub = "" THEN None ELSE req.sub

\* getUserRole that returns the stored role column as it is (mutant)
getUserRole_raw(db, req) ==
    LET userId == getUserId(req) IN
    IF userId = None THEN "client" ELSE getUser(db, userId).role

\* getUserRole: "client" without a principal; else user?.role || "client"
getUserRole(db, req) ==
    LET userId == getUserId(req) IN
    IF userId = None THEN "client"
    ELSE LET user == getUser(db, userId) IN
         IF ~user.found \/ user.role = "" THEN "client" ELSE user.role

\* A response, with the store it leaves behind.
\*   handled : the route handler ran
\*   audit   : "none", "written" or "failed" (the audit write of this request)
\*   checked : the session activity middleware applied its idle check
Reply(db, status, msg, body, handled, audit) ==
    [db |-> db, status |-> status, msg |-> msg, body |-> body,
     handled |-> handled, audit |-> audit, checked |-> FALSE]

\* An error thrown inside an async handler: no response body, the writes made
\* before the throw stay.
Crash(db, audit) == Reply(db, 500, "unhandled rejection", {}, TRUE, audit)

\* Session activity middleware (routes.ts:136-160).  next = FALSE is the 401
\* "Session expired due to inactivity"; checked is whether the guard of line
\* 137 held, that is, whether the idle check was applied to this request.
SessionActivityMiddleware(db, req, t, dbOk) ==
    IF req.hasFn /\ req.authed /\ req.sessionID # None /\ req.sub \notin {None, ""}
    THEN LET activity == getSessionActivity(db, req.sessionID) IN
         IF activity # {} /\
            (t - (CHOOSE a \in activity : TRUE).lastActivity) > SESSION_TIMEOUT_MINUTES
         THEN LET a == createAuditEntry(db,
                         AuditEntry(req.sub, "session_timeout", "session",
                                    req.sessionID, None, t), dbOk)
                  \* req.logout(): the session loses its principal
                  out == [a.db EXCEPT !.sessions =
                             [a.db.sessions EXCEPT ![req.sessionID] = None]]
              IN  [next |-> FALSE, checked |-> TRUE, audit |-> a.audit, db |-> out]
         ELSE [next |-> TRUE, checked |-> TRUE, audit |-> "none",
               db |-> updateSessionActivity(db, req.sessionID, req.sub, t)]
    ELSE [next |-> TRUE, checked |-> FALSE, audit |-> "none", db |-> db]

\* requireTherapist that asks for the office_admin rank (mutant)
requireTherapist_officeAdmin(db, req) == isOfficeAdminRole(getUserRole(db, req))

\* requireTherapist / requireOfficeAdmin: 403 unless the role predicate holds
requireTherapist(db, req) == isTherapistRole(getUserRole(db, req))

requireOfficeAdmin(db, req) == isOfficeAdminRole(getUserRole(db, req))

\* Everything a request passes before its route handler, in registration
\* order: the session activity middleware, the middlewares of setupAuth, the
\* isAuthenticated guard and the route's role guard ("any", "therapist" or
\* "office_admin").  pass = TRUE hands req and db to the handler.
Entry(db, sid, guard, t, dbOk) ==
    LET m == SessionActivityMiddleware(db, ReqAtMount(db, sid), t, dbOk)
        req == ReqAfterSetupAuth(m.db, sid)
    IN  IF ~m.next
        THEN [pass |-> FALSE, checked |-> m.checked, req |-> req,
              out |-> Reply(m.db, 401, "Session expired due to inactivity", {},
                            FALSE, m.audit)]
        ELSE IF ~isAuthenticated(req)
        THEN [pass |-> FALSE, checked |-> m.checked, req |-> req,
              out |-> Reply(m.db, 401, "Unauthorized", {}, FALSE, "none")]
        ELSE IF guard = "therapist" /\ ~requireTherapist(m.db, req)
        THEN [pass |-> FALSE, checked |-> m.checked, req |-> req,
              out |-> Reply(m.db, 403, "Therapist access required", {}, FALSE, "none")]
        ELSE IF guard = "office_admin" /\ ~requireOfficeAdmin(m.db, req)
        THEN [pass |-> FALSE, checked |-> m.checked, req |-> req,
              out |-> Reply(m.db, 403, "Admin access required", {}, FALSE, "none")]
        ELSE [pass |-> TRUE, checked |-> m.checked, req |-> req,
              out |-> Reply(m.db, 200, "", {}, TRUE, "none")]

\* --------------------------------------------- storage: treatment writes

\* INSERT into treatment_plans; client_id is UNIQUE, and a rejected insert
\* has already drawn its serial id
createTreatmentPlan(db, clientId) ==
    LET id == db.nextId.plans
        drawn == [db EXCEPT !.nextId.plans = id + 1]
    IN  IF \E p \in db.plans : p.clientId = clientId
        THEN [db |-> drawn, threw |-> TRUE, rows |-> {}]
        ELSE [db |-> [drawn EXCEPT !.plans = @ \cup {[id |-> id, clientId |-> clientId]}],
              threw |-> FALSE, rows |-> {[id |-> id, clientId |-> clientId]}]

\* UPDATE treatment_plans SET ...updates WHERE id; updates may name a new
\* client_id (None: the body names none), which must stay unique
updateTreatmentPlan(db, id, clientId) ==
    LET hit == {p \in db.plans : p.id = id}
        new == IF clientId = None THEN hit
               ELSE {[p EXCEPT !.clientId = clientId] : p \in hit}
    IN  IF hit # {} /\ \E q \in db.plans \ hit : q.clientId = clientId
        THEN [db |-> db, threw |-> TRUE, rows |-> {}]
        ELSE [db |-> [db EXCEPT !.plans = (@ \ hit) \cup new],
              threw |-> FALSE, rows |-> new]

\* INSERT into treatment_goals; plan_id is a plain integer (no foreign key)
createGoal(db, planId) ==
    LET id == db.nextId.goals
        row == [id |-> id, planId |-> planId]
    IN  [db |-> [db EXCEPT !.nextId.goals = id + 1, !.goals = @ \cup {row}],
         threw |-> FALSE, rows |-> {row}]

\* UPDATE treatment_goals; planId = 0: the body names no plan_id
updateGoal(db, id, planId) ==
    LET hit == {g \in db.goals : g.id = id}
        new == IF planId = 0 THEN hit ELSE {[g EXCEPT !.planId = planId] : g \in hit}
    IN  [db |-> [db EXCEPT !.goals = (@ \ hit) \cup new], threw |-> FALSE, rows |-> new]

deleteGoal(db, id) ==
    [db |-> [db EXCEPT !.goals = {g \in @ : g.id # id}], threw |-> FALSE, rows |-> {}]

createObjective(db, goalId) ==
    LET id == db.nextId.objectives
        row == [id |-> id, goalId |-> goalId]
    IN  [db |-> [db EXCEPT !.nextId.objectives = id + 1, !.objectives = @ \cup {row}],
         threw |-> FALSE, rows |-> {row}]

updateObjective(db, id, goalId) ==
    LET hit == {o \in db.objectives : o.id = id}
        new == IF goalId = 0 THEN hit ELSE {[o EXCEPT !.goalId = goalId] : o \in hit}
    IN  [db |-> [db EXCEPT !.objectives = (@ \ hit) \cup new],
         threw |-> FALSE, rows |-> new]

deleteObjective(db, id) ==
    [db |-> [db EXCEPT !.objectives = {o \in @ : o.id # id}],
     threw |-> FALSE, rows |-> {}]

\* INSERT into treatment_progress; progress_level is a plain integer column
createProgress(db, objectiveId, progressLevel) ==
    LET id == db.nextId.progress
        row == [id |-> id, objectiveId |-> objectiveId, progressLevel |-> progressLevel]
    IN  [db |-> [db EXCEPT !.nextId.progress = id + 1, !.progress = @ \cup {row}],
         threw |-> FALSE, rows |-> {row}]

\* INSERT into journals
createJournal(db, userId, isShared) ==
    LET id == db.nextId.journals
        row == [id |-> id, userId |-> userId, isShared |-> isShared]
    IN  [db |-> [db EXCEPT !.nextId.journals = id + 1, !.journals = @ \cup {row}],
         threw |-> FALSE, rows |-> {row}]

\* INSERT into data_disclosures
createDataDisclosure(db, clientId, disclosedBy) ==
    LET id == db.nextId.disclosures
        row == [id |-> id, clientId |-> clientId, disclosedBy |-> disclosedBy]
    IN  [db |-> [db EXCEPT !.nextId.disclosures = id + 1, !.disclosures = @ \cup {row}],
         threw |-> FALSE, rows |-> {row}]

\* INSERT / UPDATE / DELETE on prompts
createPrompt(db, clientId, isActive) ==
    LET id == db.nextId.prompts
        row == [id |-> id, clientId |-> clientId, isActive |-> isActive]
    IN  [db |-> [db EXCEPT !.nextId.prompts = id + 1, !.prompts = @ \cup {row}],
         threw |-> FALSE, rows |-> {row}]

updatePrompt(db, id, isActive) ==
    LET hit == {x \in db.prompts : x.id = id}
        new == {[x EXCEPT !.isActive = isActive] : x \in hit}
    IN  [db |-> [db EXCEPT !.prompts = (@ \ hit) \cup new], threw |-> FALSE, rows |-> new]

deletePrompt(db, id) ==
    [db |-> [db EXCEPT !.prompts = {x \in @ : x.id # id}], threw |-> FALSE, rows |-> {}]

\* INSERT / UPDATE / DELETE on resources
createResource(db, clientId) ==
    LET id == db.nextId.resources
        row == [id |-> id, clientId |-> clientId]
    IN  [db |-> [db EXCEPT !.nextId.resources = id + 1, !.resources = @ \cup {row}],
         threw |-> FALSE, rows |-> {row}]

updateResource(db, id, clientId) ==
    LET hit == {x \in db.resources : x.id = id}
        new == {[x EXCEPT !.clientId = clientId] : x \in hit}
    IN  [db |-> [db EXCEPT !.resources = (@ \ hit) \cup new], threw |-> FALSE,
         rows |-> new]

deleteResource(db, id) ==
    [db |-> [db EXCEPT !.resources = {x \in @ : x.id # id}], threw |-> FALSE,
     rows |-> {}]

\* INSERT / UPDATE / DELETE on homework; the status column defaults to pending
createHomework(db, userId) ==
    LET id == db.nextId.homework
        row == [id |-> id, userId |-> userId, status |-> "pending"]
    IN  [db |-> [db EXCEPT !.nextId.homework = id + 1, !.homework = @ \cup {row}],
         threw |-> FALSE, rows |-> {row}]

\* UPDATE homework SET <the submitted fields>; userId = None: not submitted
updateHomework(db, id, status, userId) ==
    LET hit == {x \in db.homework : x.id = id}
        new == {[x EXCEPT !.status = status,
                          !.userId = IF userId = None THEN @ ELSE userId] : x \in hit}
    IN  [db |-> [db EXCEPT !.homework = (@ \ hit) \cup new], threw |-> FALSE,
         rows |-> new]

deleteHomework(db, id) ==
    [db |-> [db EXCEPT !.homework = {x \in @ : x.id # id}], threw |-> FALSE,
     rows |-> {}]

\* the result of a storage write as the handler's response
WriteReply(w, okStatus) ==
    IF w.threw THEN Crash(w.db, "none")
    ELSE Reply(w.db, okStatus, "", w.rows, TRUE, "none")

\* the result of an audit write followed by the handler's response
AuditedReply(a, status, body) ==
    IF a.threw THEN Crash(a.db, a.audit)
    ELSE Reply(a.db, status, "", body, TRUE, a.audit)

\* ------------------------------------------------ handlers: treatment plans

\* GET /api/treatment-plans
H_GetTreatmentPlans(db, req, t, dbOk) ==
    LET userId == getUserId(req)
        role == getUserRole(db, req)
    IN  IF userId = None THEN Reply(db, 401, "", {}, TRUE, "none")
        ELSE IF isTherapistRole(role)
        THEN LET a == createAuditEntry(db,
                        AuditEntry(userId, "view_all", "treatment_plan", None, None, t),
                        dbOk)
             IN  AuditedReply(a, 200, getAllTreatmentPlans(a.db))
        ELSE LET a == createAuditEntry(db,
                        AuditEntry(userId, "view", "treatment_plan", None, userId, t),
                        dbOk)
             IN  AuditedReply(a, 200, getTreatmentPlan(a.db, userId))

\* GET /api/treatment-plans/:clientId answering 404 for a client without a
\* plan before it checks the caller (mutant)
H_GetTreatmentPlan_notFound(db, req, clientId, t, dbOk) ==
    LET userId == getUserId(req)
        role == getUserRole(db, req)
    IN  IF getTreatmentPlan(db, clientId) = {}
        THEN Reply(db, 404, "Not found", {}, TRUE, "none")
        ELSE IF ~isTherapistRole(role) /\ userId # clientId
        THEN Reply(db, 403, "Access denied", {}, TRUE, "none")
        ELSE IF isTherapistRole(role) /\ userId # clientId
        THEN LET a == createAuditEntry(db,
                        AuditEntry(userId, "view", "treatment_plan", None, clientId, t),
                        dbOk)
             IN  AuditedReply(a, 200, getTreatmentPlan(a.db, clientId))
        ELSE Reply(db, 200, "", getTreatmentPlan(db, clientId), TRUE, "none")

\* GET /api/treatment-plans/:clientId
H_GetTreatmentPlan(db, req, clientId, t, dbOk) ==
    LET userId == getUserId(req)
        role == getUserRole(db, req)
    IN  IF ~isTherapistRole(role) /\ userId # clientId
        THEN Reply(db, 403, "Access denied", {}, TRUE, "none")
        ELSE IF isTherapistRole(role) /\ userId # clientId
        THEN LET a == createAuditEntry(db,
                        AuditEntry(userId, "view", "treatment_plan", None, clientId, t),
                        dbOk)
             IN  AuditedReply(a, 200, getTreatmentPlan(a.db, clientId))
        ELSE Reply(db, 200, "", getTreatmentPlan(db, clientId), TRUE, "none")

\* POST /api/treatment-plans (behind requireTherapist)
H_PostTreatmentPlan(db, req, clientId) == WriteReply(createTreatmentPlan(db, clientId), 201)

\* PATCH /api/treatment-plans/:id (behind requireTherapist)
H_PatchTreatmentPlan(db, req, id, clientId) ==
    WriteReply(updateTreatmentPlan(db, id, clientId), 200)

\* ------------------------------------------------ handlers: treatment goals

\* verifyPlanAccess that only looks the plan up (mutant)
verifyPlanAccess_anyPlan(db, req, planId) ==
    LET role == getUserRole(db, req) IN
    IF isTherapistRole(role) THEN TRUE
    ELSE \E p \in getAllTreatmentPlans(db) : p.id = planId

\* verifyPlanAccess: a therapist, or the client that the plan row names
verifyPlanAccess(db, req, planId) ==
    LET userId == getUserId(req)
        role == getUserRole(db, req)
    IN  IF isTherapistRole(role) THEN TRUE
        ELSE \E p \in getAllTreatmentPlans(db) : p.id = planId /\ p.clientId = userId

\* GET /api/treatment-goals/:planId logging the caller as the subject (mutant)
H_GetGoals_targetSelf(db, req, planId, t, dbOk) ==
    LET userId == getUserId(req)
        role == getUserRole(db, req)
        plan == {p \in getAllTreatmentPlans(db) : p.id = planId}
    IN  IF ~verifyPlanAccess(db, req, planId)
        THEN Reply(db, 403, "Access denied", {}, TRUE, "none")
        ELSE IF plan # {} /\ isTherapistRole(role)
        THEN LET a == createAuditEntry(db,
                        AuditEntry(userId, "view", "treatment_goals", ToString(planId),
                                   userId, t),
                        dbOk)
             IN  AuditedReply(a, 200, getGoals(a.db, planId))
        ELSE Reply(db, 200, "", getGoals(db, planId), TRUE, "none")

\* GET /api/treatment-goals/:planId
H_GetGoals(db, req, planId, t, dbOk) ==
    LET userId == getUserId(req)
        role == getUserRole(db, req)
        plan == {p \in getAllTreatmentPlans(db) : p.id = planId}
    IN  IF ~verifyPlanAccess(db, req, planId)
        THEN Reply(db, 403, "Access denied", {}, TRUE, "none")
        ELSE IF plan # {} /\ isTherapistRole(role)
        THEN LET a == createAuditEntry(db,
                        AuditEntry(userId, "view", "treatment_goals", ToString(planId),
                                   (CHOOSE p \in plan : TRUE).clientId, t),
                        dbOk)
             IN  AuditedReply(a, 200, getGoals(a.db, planId))
        ELSE Reply(db, 200, "", getGoals(db, planId), TRUE, "none")

H_PostGoal(db, req, planId) == WriteReply(createGoal(db, planId), 201)

H_PatchGoal(db, req, id, planId) == WriteReply(updateGoal(db, id, planId), 200)

H_DeleteGoal(db, req, id) == WriteReply(deleteGoal(db, id), 204)

\* ------------------------------------------- handlers: treatment objectives

\* GET /api/treatment-objectives/:goalId that only asks a client for a plan
\* of their own, not for the goal to be under it (mutant)
H_GetObjectives_anyGoal(db, req, goalId, t, dbOk) ==
    LET userId == getUserId(req)
        role == getUserRole(db, req)
    IN  IF ~isTherapistRole(role)
        THEN IF getTreatmentPlan(db, userId) = {}
             THEN Reply(db, 403, "Access denied", {}, TRUE, "none")
             ELSE Reply(db, 200, "", getObjectives(db, goalId), TRUE, "none")
        ELSE LET owner == {p \in getAllTreatmentPlans(db) :
                              \E g \in getGoals(db, p.id) : g.id = goalId}
             IN  IF owner # {}
                 THEN LET a == createAuditEntry(db,
                                 AuditEntry(userId, "view", "treatment_objectives",
                                            ToString(goalId),
                                            (CHOOSE p \in owner : TRUE).clientId, t),
                                 dbOk)
                      IN  AuditedReply(a, 200, getObjectives(a.db, goalId))
                 ELSE Reply(db, 200, "", getObjectives(db, goalId), TRUE, "none")

\* GET /api/treatment-objectives/:goalId
H_GetObjectives(db, req, goalId, t, dbOk) ==
    LET userId == getUserId(req)
        role == getUserRole(db, req)
    IN  IF ~isTherapistRole(role)
        THEN LET clientPlan == {p \in getAllTreatmentPlans(db) : p.clientId = userId} IN
             IF clientPlan = {}
             THEN Reply(db, 403, "Access denied", {}, TRUE, "none")
             ELSE IF ~\E g \in getGoals(db, (CHOOSE p \in clientPlan : TRUE).id) :
                        g.id = goalId
             THEN Reply(db, 403, "Access denied", {}, TRUE, "none")
             ELSE Reply(db, 200, "", getObjectives(db, goalId), TRUE, "none")
        ELSE LET owner == {p \in getAllTreatmentPlans(db) :
                              \E g \in getGoals(db, p.id) : g.id = goalId}
             IN  IF owner # {}
                 THEN LET a == createAuditEntry(db,
                                 AuditEntry(userId, "view", "treatment_objectives",
                                            ToString(goalId),
                                            (CHOOSE p \in owner : TRUE).clientId, t),
                                 dbOk)
                      IN  AuditedReply(a, 200, getObjectives(a.db, goalId))
                 ELSE Reply(db, 200, "", getObjectives(db, goalId), TRUE, "none")

H_PostObjective(db, req, goalId) == WriteReply(createObjective(db, goalId), 201)

H_PatchObjective(db, req, id, goalId) == WriteReply(updateObjective(db, id, goalId), 200)

H_DeleteObjective(db, req, id) == WriteReply(deleteObjective(db, id), 204)

\* --------------------------------------------- handlers: treatment progress

\* the client at the end of the chain objective -> goal -> plan, or None
ProgressTarget(db, objectiveId) ==
    LET owner == {p \in getAllTreatmentPlans(db) :
                    \E g \in getGoals(db, p.id) :
                        \E o \in getObjectives(db, g.id) : o.id = objectiveId}
    IN  IF owner = {} THEN None ELSE (CHOOSE p \in owner : TRUE).clientId

\* GET /api/treatment-progress/:objectiveId (behind requireTherapist)
H_GetProgress(db, req, objectiveId, t, dbOk) ==
    LET userId == getUserId(req)
        a == createAuditEntry(db,
                AuditEntry(userId, "view", "treatment_progress", ToString(objectiveId),
                           ProgressTarget(db, objectiveId), t),
                dbOk)
    IN  AuditedReply(a, 200, getProgress(a.db, objectiveId))

H_PostProgress(db, req, objectiveId, progressLevel) ==
    WriteReply(createProgress(db, objectiveId, progressLevel), 201)

\* ----------------------------------------------------- handlers: clients

\* PATCH /api/clients/:id/role that stores whatever role it is given (mutant)
H_PatchRole_unvalidated(db, req, id, role) ==
    Reply(updateUserRole(db, id, role), 200, "",
          IF id \in DOMAIN db.users THEN {[id |-> id, role |-> role]} ELSE {},
          TRUE, "none")

\* PATCH /api/clients/:id/role (behind requireTherapist)
H_PatchRole(db, req, id, role) ==
    IF role \notin {"therapist", "office_admin", "client"}
    THEN Reply(db, 400, "Invalid role", {}, TRUE, "none")
    ELSE Reply(updateUserRole(db, id, role), 200, "",
               IF id \in DOMAIN db.users THEN {[id |-> id, role |-> role]} ELSE {},
               TRUE, "none")

\* ------------------------------------------- handlers: journals, compliance

\* GET /api/journals/client/:clientId (behind requireTherapist)
H_GetClientJournals(db, req, clientId, t, dbOk) ==
    LET userId == getUserId(req)
        a == createAuditEntry(db,
                AuditEntry(userId, "view", "journal", None, clientId, t), dbOk)
    IN  AuditedReply(a, 200, getSharedJournals(a.db, clientId))

\* POST /api/journals
H_PostJournal(db, req, isShared) ==
    LET userId == getUserId(req) IN
    IF userId = None THEN Reply(db, 401, "", {}, TRUE, "none")
    ELSE WriteReply(createJournal(db, userId, isShared), 201)

\* GET /api/audit-logs?targetUserId&startDate (behind requireTherapist): the
\* view is itself logged before the logs are read
H_GetAuditLogs(db, req, targetUserId, startDate, t, dbOk) ==
    LET userId == getUserId(req)
        a == createAuditEntry(db,
                AuditEntry(userId, "view", "audit_logs", None, targetUserId, t), dbOk)
    IN  AuditedReply(a, 200, getAuditLogs(a.db, targetUserId, startDate))

\* POST /api/data-disclosures (behind requireTherapist): the disclosure row,
\* then its audit entry
H_PostDataDisclosure(db, req, clientId, t, dbOk) ==
    LET userId == getUserId(req) IN
    IF userId = None THEN Reply(db, 401, "", {}, TRUE, "none")
    ELSE LET w == createDataDisclosure(db, clientId, userId)
             id == (CHOOSE d \in w.rows : TRUE).id
             a == createAuditEntry(w.db,
                     AuditEntry(userId, "create", "data_disclosure", ToString(id),
                                clientId, t), dbOk)
         IN  AuditedReply(a, 201, w.rows)

\* GET /api/journals
H_GetJournals(db, req) ==
    LET userId == getUserId(req) IN
    IF userId = None THEN Reply(db, 401, "", {}, TRUE, "none")
    ELSE Reply(db, 200, "", getJournals(db, userId), TRUE, "none")

\* ------------------------------------ handlers: prompts, resources, homework

\* GET /api/prompts: both branches call storage.getPrompts, which takes no
\* argument, so the caller's id passed in the second branch has no effect
H_GetPrompts(db, req) ==
    LET role == getUserRole(db, req) IN
    IF isTherapistRole(role)
    THEN Reply(db, 200, "", getPrompts(db), TRUE, "none")
    ELSE Reply(db, 200, "", getPrompts(db), TRUE, "none")

\* POST /api/prompts (behind requireTherapist): clientId || null
H_PostPrompt(db, req, clientId, isActive) ==
    WriteReply(createPrompt(db, IF clientId = "" THEN None ELSE clientId, isActive), 201)

\* PATCH /api/prompts/:id with body {isActive} (behind requireTherapist)
H_PatchPrompt(db, req, id, isActive) == WriteReply(updatePrompt(db, id, isActive), 200)

\* DELETE /api/prompts/:id (behind requireTherapist)
H_DeletePrompt(db, req, id) == WriteReply(deletePrompt(db, id), 204)

\* GET /api/resources
H_GetResources(db, req) ==
    LET userId == getUserId(req)
        role == getUserRole(db, req)
    IN  IF isTherapistRole(role)
        THEN Reply(db, 200, "", getResources(db, None), TRUE, "none")
        ELSE Reply(db, 200, "", getResources(db, userId), TRUE, "none")

\* POST /api/resources (behind requireTherapist)
H_PostResource(db, req, clientId) == WriteReply(createResource(db, clientId), 201)

\* PATCH /api/resources/:id with body {clientId} (behind requireTherapist)
H_PatchResource(db, req, id, clientId) ==
    WriteReply(updateResource(db, id, clientId), 200)

\* DELETE /api/resources/:id (behind requireTherapist)
H_DeleteResource(db, req, id) == WriteReply(deleteResource(db, id), 204)

\* GET /api/homework
H_GetHomework(db, req) ==
    LET userId == getUserId(req)
        role == getUserRole(db, req)
    IN  IF userId = None THEN Reply(db, 401, "", {}, TRUE, "none")
        ELSE IF isOfficeAdminRole(role)
        THEN Reply(db, 200, "", getAllHomework(db), TRUE, "none")
        ELSE Reply(db, 200, "", getHomework(db, userId), TRUE, "none")

\* POST /api/homework (behind requireOfficeAdmin)
H_PostHomework(db, req, userId) == WriteReply(createHomework(db, userId), 201)

\* PATCH /api/homework/:id that lets only the owner of the row through (mutant)
H_PatchHomework_ownerOnly(db, req, id, status, userId) ==
    IF \E h \in db.homework : h.id = id /\ h.userId # getUserId(req)
    THEN Reply(db, 403, "Access denied", {}, TRUE, "none")
    ELSE WriteReply(updateHomework(db, id, status, userId), 200)

\* PATCH /api/homework/:id: behind isAuthenticated only; req.body goes to the
\* store as it is
H_PatchHomework(db, req, id, status, userId) ==
    WriteReply(updateHomework(db, id, status, userId), 200)

\* DELETE /api/homework/:id (behind requireOfficeAdmin)
H_DeleteHomework(db, req, id) == WriteReply(deleteHomework(db, id), 204)

\* the projection with the actor's id as accessedBy (mutant)
Sanitized_actorId(log, userId) ==
    [action |-> log.action, resourceType |-> log.resourceType,
     createdAt |-> log.createdAt, accessedBy |-> log.userId]

\* the projection of an audit entry shown to the client it is about
Sanitized(log, userId) ==
    [action |-> log.action, resourceType |-> log.resourceType,
     createdAt |-> log.createdAt,
     accessedBy |-> IF log.userId # userId THEN "Healthcare Provider" ELSE "You"]

\* GET /api/my-data-access
H_GetMyDataAccess(db, req) ==
    LET userId == getUserId(req) IN
    IF userId = None THEN Reply(db, 401, "", {}, TRUE, "none")
    ELSE Reply(db, 200, "",
               {Sanitized(log, userId) : log \in getClientDataAccessLogs(db, userId)},
               TRUE, "none")

\* GET /api/session-status
H_GetSessionStatus(db, req, t) ==
    LET userId == getUserId(req)
        activity == getSessionActivity(db, req.sessionID)
    IN  IF userId = None \/ req.sessionID = None
        THEN Reply(db, 401, "", {}, TRUE, "none")
        ELSE IF activity = {}
        THEN Reply(db, 200, "",
                   {[valid |-> TRUE, remainingMinutes |-> SESSION_TIMEOUT_MINUTES]},
                   TRUE, "none")
        ELSE LET minutes == t - (CHOOSE a \in activity : TRUE).lastActivity
                 remaining == IF SESSION_TIMEOUT_MINUTES - minutes > 0
                              THEN SESSION_TIMEOUT_MINUTES - minutes ELSE 0
             IN  Reply(db, 200, "",
                       {[valid |-> remaining > 0, remainingMinutes |-> remaining,
                         timeoutMinutes |-> SESSION_TIMEOUT_MINUTES]},
                       TRUE, "none")

\* ------------------------------------------------------------- routing

\* A request: the route, the session cookie, and the route's parameters
\* (n, m: numeric, 0 when unused; s: string, None when unused; role: the
\* role of a role change).
Request(op, sid, n, m, s) ==
    [role |-> "", sid |-> sid, m |-> m, op |-> op, n |-> n, s |-> s]

TherapistRoutes ==
    {"POST /api/treatment-plans", "PATCH /api/treatment-plans/:id",
     "POST /api/treatment-goals", "PATCH /api/treatment-goals/:id",
     "DELETE /api/treatment-goals/:id",
     "POST /api/treatment-objectives", "PATCH /api/treatment-objectives/:id",
     "DELETE /api/treatment-objectives/:id",
     "GET /api/treatment-progress/:objectiveId", "POST /api/treatment-progress",
     "PATCH /api/clients/:id/role", "GET /api/journals/client/:clientId",
     "GET /api/audit-logs", "POST /api/data-disclosures",
     "POST /api/prompts", "PATCH /api/prompts/:id", "DELETE /api/prompts/:id",
     "POST /api/resources", "PATCH /api/resources/:id", "DELETE /api/resources/:id"}

OfficeAdminRoutes == {"POST /api/homework", "DELETE /api/homework/:id"}

\* the role guard registered with the route, after isAuthenticated
GuardOf(op) ==
    IF op \in TherapistRoutes THEN "therapist"
    ELSE IF op \in OfficeAdminRoutes THEN "office_admin"
    ELSE "any"

\* the route handler registered for the request
Handle(r, db, req, t, dbOk) ==
    CASE r.op = "GET /api/treatment-plans" -> H_GetTreatmentPlans(db, req, t, dbOk)
      [] r.op = "GET /api/treatment-plans/:clientId" ->
            H_GetTreatmentPlan(db, req, r.s, t, dbOk)
      [] r.op = "POST /api/treatment-plans" -> H_PostTreatmentPlan(db, req, r.s)
      [] r.op = "PATCH /api/treatment-plans/:id" -> H_PatchTreatmentPlan(db, req, r.n, r.s)
      [] r.op = "GET /api/treatment-goals/:planId" -> H_GetGoals(db, req, r.n, t, dbOk)
      [] r.op = "POST /api/treatment-goals" -> H_PostGoal(db, req, r.m)
      [] r.op = "PATCH /api/treatment-goals/:id" -> H_PatchGoal(db, req, r.n, r.m)
      [] r.op = "DELETE /api/treatment-goals/:id" -> H_DeleteGoal(db, req, r.n)
      [] r.op = "GET /api/treatment-objectives/:goalId" ->
            H_GetObjectives(db, req, r.n, t, dbOk)
      [] r.op = "POST /api/treatment-objectives" -> H_PostObjective(db, req, r.m)
      [] r.op = "PATCH /api/treatment-objectives/:id" ->
            H_PatchObjective(db, req, r.n, r.m)
      [] r.op = "DELETE /api/treatment-objectives/:id" -> H_DeleteObjective(db, req, r.n)
      [] r.op = "GET /api/treatment-progress/:objectiveId" ->
            H_GetProgress(db, req, r.n, t, dbOk)
      [] r.op = "POST /api/treatment-progress" -> H_PostProgress(db, req, r.n, r.m)
      [] r.op = "PATCH /api/clients/:id/role" -> H_PatchRole(db, req, r.s, r.role)
      [] r.op = "GET /api/journals/client/:clientId" ->
            H_GetClientJournals(db, req, r.s, t, dbOk)
      [] r.op = "POST /api/journals" -> H_PostJournal(db, req, r.m = 1)
      [] r.op = "GET /api/audit-logs" -> H_GetAuditLogs(db, req, r.s, r.n, t, dbOk)
      [] r.op = "POST /api/data-disclosures" ->
            H_PostDataDisclosure(db, req, r.s, t, dbOk)
      [] r.op = "GET /api/session-status" -> H_GetSessionStatus(db, req, t)
      [] r.op = "GET /api/journals" -> H_GetJournals(db, req)
      [] r.op = "GET /api/prompts" -> H_GetPrompts(db, req)
      [] r.op = "POST /api/prompts" -> H_PostPrompt(db, req, r.s, r.m = 1)
      [] r.op = "PATCH /api/prompts/:id" -> H_PatchPrompt(db, req, r.n, r.m = 1)
      [] r.op = "DELETE /api/prompts/:id" -> H_DeletePrompt(db, req, r.n)
      [] r.op = "GET /api/resources" -> H_GetResources(db, req)
      [] r.op = "POST /api/resources" -> H_PostResource(db, req, r.s)
      [] r.op = "PATCH /api/resources/:id" -> H_PatchResource(db, req, r.n, r.s)
      [] r.op = "DELETE /api/resources/:id" -> H_DeleteResource(db, req, r.n)
      [] r.op = "GET /api/homework" -> H_GetHomework(db, req)
      [] r.op = "POST /api/homework" -> H_PostHomework(db, req, r.s)
      [] r.op = "PATCH /api/homework/:id" ->
            H_PatchHomework(db, req, r.n,
                            IF r.m = 1 THEN "completed" ELSE "pending", r.s)
      [] r.op = "DELETE /api/homework/:id" -> H_DeleteHomework(db, req, r.n)
      [] r.op = "GET /api/my-data-access" -> H_GetMyDataAccess(db, req)

\* A request through the whole pipeline: the store and response it ends with.
Route(r, db, t, dbOk) ==
    LET e == Entry(db, r.sid, GuardOf(r.op), t, dbOk) IN
    IF ~e.pass THEN [e.out EXCEPT !.checked = e.checked]
    ELSE [Handle(r, e.out.db, e.req, t, dbOk) EXCEPT !.checked = e.checked]

\* the principal that the request's session carries, and the role it resolves to
Principal(db, sid) == IF sid \in Sids THEN db.sessions[sid] ELSE None

CallerRole(db, sid) == getUserRole(db, ReqAfterSetupAuth(db, sid))

\* the store stays within the bounds of the model
InBounds(db) ==
    /\ Len(db.auditLogs) <= MaxAudit
    /\ db.nextId.plans <= MaxPlans + 1
    /\ db.nextId.goals <= MaxGoals + 1
    /\ db.nextId.objectives <= MaxObjectives + 1
    /\ db.nextId.progress <= MaxProgress + 1
    /\ db.nextId.journals <= MaxJournals + 1
    /\ db.nextId.disclosures <= MaxDisclosures + 1
    /\ db.nextId.prompts <= MaxPrompts + 1
    /\ db.nextId.resources <= MaxResources + 1
    /\ db.nextId.homework <= MaxHomework + 1

\* Process request r: the store becomes the one the route leaves, and the
\* request and its response are recorded.
Do(r, dbOk) ==
    \E out \in {Route(r, DB, now, dbOk)} :
    /\ InBounds(out.db)
    /\ users' = out.db.users
    /\ plans' = out.db.plans
    /\ goals' = out.db.goals
    /\ objectives' = out.db.objectives
    /\ progress' = out.db.progress
    /\ journals' = out.db.journals
    /\ disclosures' = out.db.disclosures
    /\ prompts' = out.db.prompts
    /\ resources' = out.db.resources
    /\ homework' = out.db.homework
    /\ nextId' = out.db.nextId
    /\ auditLogs' = out.db.auditLogs
    /\ sessionActivity' = out.db.sessionActivity
    /\ sessions' = out.db.sessions
    /\ last' = [req |-> r, user |-> Principal(DB, r.sid), role |-> CallerRole(DB, r.sid),
                time |-> now, status |-> out.status, msg |-> out.msg,
                body |-> out.body, handled |-> out.handled,
                checked |-> out.checked, audit |-> out.audit]
    /\ UNCHANGED <<now, probe, calls, notifier>>

\* the role values a role change is tried with: the three roles and one other
RoleInputs == RoleNames \cup {"admin"}

\* no request is being answered
NoRequest ==
    [req |-> Request("none", NoCookie, 0, 0, None), user |-> None, role |-> "client",
     time |-> 0, status |-> 0, msg |-> "", body |-> {}, handled |-> FALSE,
     checked |-> FALSE, audit |-> "none"]

\* no helper has been applied
NoProbe ==
    [fn |-> "none", r |-> "", q |-> "client", req |-> Req(FALSE, FALSE, None, None),
     out |-> FALSE, role |-> ""]

\* the processes that carry requests in flight
Procs == {"p1", "p2"}

\* A request in flight: its position (pc) and the values its handler holds.
\*   sid, sub : req.sessionID and req.user.claims.sub
\*   n        : a numeric route parameter
\*   role     : a role the handler has read
\*   rows     : the rows its last SELECT returned
\*   t        : the value of new Date() it has read
\*   audit    : "none", "written" or "failed" (its audit write)
Call(pc, sid, sub, n, role, rows, t) ==
    [pc |-> pc, sid |-> sid, sub |-> sub, n |-> n, role |-> role, rows |-> rows, t |-> t,
     audit |-> "none"]

NoCall == Call("idle", NoCookie, None, 0, "", {}, 0)

\* no request is in flight
NoCalls == [p \in Procs |-> NoCall]

\* ReminderNotifier before its first render with data: permission not
\* granted, no query data, nothing notified, nothing shown
NoNotifier ==
    [clock |-> 0, isGranted |-> FALSE, reminders |-> <<>>, notifiedIds |-> {},
     shown |-> <<>>, lastRun |-> -1]

\* the server holds no request
Idle == last = NoRequest

\* ------------------------------------------------------------- actions

GetTreatmentPlans ==
    \E sid \in Sids, dbOk \in BOOLEAN :
        Do(Request("GET /api/treatment-plans", sid, 0, 0, None), dbOk)

GetTreatmentPlan ==
    \E sid \in Sids, clientId \in Users, dbOk \in BOOLEAN :
        Do(Request("GET /api/treatment-plans/:clientId", sid, 0, 0, clientId), dbOk)

PostTreatmentPlan ==
    \E sid \in Sids, clientId \in Users :
        Do(Request("POST /api/treatment-plans", sid, 0, 0, clientId), TRUE)

PatchTreatmentPlan ==
    \E sid \in Sids, id \in PlanIds, clientId \in Users \cup {None} :
        Do(Request("PATCH /api/treatment-plans/:id", sid, id, 0, clientId), TRUE)

GetGoals ==
    \E sid \in Sids, planId \in PlanIds, dbOk \in BOOLEAN :
        Do(Request("GET /api/treatment-goals/:planId", sid, planId, 0, None), dbOk)

PostGoal ==
    \E sid \in Sids, planId \in PlanIds :
        Do(Request("POST /api/treatment-goals", sid, 0, planId, None), TRUE)

PatchGoal ==
    \E sid \in Sids, id \in GoalIds, planId \in PlanIds \cup {0} :
        Do(Request("PATCH /api/treatment-goals/:id", sid, id, planId, None), TRUE)

DeleteGoal ==
    \E sid \in Sids, id \in GoalIds :
        Do(Request("DELETE /api/treatment-goals/:id", sid, id, 0, None), TRUE)

GetObjectives ==
    \E sid \in Sids, goalId \in GoalIds, dbOk \in BOOLEAN :
        Do(Request("GET /api/treatment-objectives/:goalId", sid, goalId, 0, None), dbOk)

PostObjective ==
    \E sid \in Sids, goalId \in GoalIds :
        Do(Request("POST /api/treatment-objectives", sid, 0, goalId, None), TRUE)

PatchObjective ==
    \E sid \in Sids, id \in ObjectiveIds, goalId \in GoalIds \cup {0} :
        Do(Request("PATCH /api/treatment-objectives/:id", sid, id, goalId, None), TRUE)

DeleteObjective ==
    \E sid \in Sids, id \in ObjectiveIds :
        Do(Request("DELETE /api/treatment-objectives/:id", sid, id, 0, None), TRUE)

GetProgress ==
    \E sid \in Sids, objectiveId \in ObjectiveIds, dbOk \in BOOLEAN :
        Do(Request("GET /api/treatment-progress/:objectiveId", sid, objectiveId, 0, None),
           dbOk)

PostProgress ==
    \E sid \in Sids, objectiveId \in ObjectiveIds, level \in ProgressLevels :
        Do(Request("POST /api/treatment-progress", sid, objectiveId, level, None), TRUE)

GetClientJournals ==
    \E sid \in Sids, clientId \in Users, dbOk \in BOOLEAN :
        Do(Request("GET /api/journals/client/:clientId", sid, 0, 0, clientId), dbOk)

PostJournal ==
    \E sid \in Sids, isShared \in {0, 1} :
        Do(Request("POST /api/journals", sid, 0, isShared, None), TRUE)

GetAuditLogs ==
    \E sid \in Sids, targetUserId \in Users \cup {None}, startDate \in {-1, now},
       dbOk \in BOOLEAN :
        Do(Request("GET /api/audit-logs", sid, startDate, 0, targetUserId), dbOk)

PostDataDisclosure ==
    \E sid \in Sids, clientId \in Users, dbOk \in BOOLEAN :
        Do(Request("POST /api/data-disclosures", sid, 0, 0, clientId), dbOk)

PatchRole ==
    \E sid \in Sids, id \in Users, role \in RoleInputs :
        Do([Request("PATCH /api/clients/:id/role", sid, 0, 0, id) EXCEPT !.role = role],
           TRUE)

GetJournals ==
    \E sid \in Sids : Do(Request("GET /api/journals", sid, 0, 0, None), TRUE)

GetPrompts ==
    \E sid \in Sids : Do(Request("GET /api/prompts", sid, 0, 0, None), TRUE)

PostPrompt ==
    \E sid \in Sids, clientId \in {"", "u2", "u3"}, isActive \in {0, 1} :
        Do(Request("POST /api/prompts", sid, 0, isActive, clientId), TRUE)

PatchPrompt ==
    \E sid \in Sids, id \in PromptIds, isActive \in {0, 1} :
        Do(Request("PATCH /api/prompts/:id", sid, id, isActive, None), TRUE)

DeletePrompt ==
    \E sid \in Sids, id \in PromptIds :
        Do(Request("DELETE /api/prompts/:id", sid, id, 0, None), TRUE)

GetResources ==
    \E sid \in Sids : Do(Request("GET /api/resources", sid, 0, 0, None), TRUE)

PostResource ==
    \E sid \in Sids, clientId \in {None, "u2", "u3"} :
        Do(Request("POST /api/resources", sid, 0, 0, clientId), TRUE)

PatchResource ==
    \E sid \in Sids, id \in ResourceIds, clientId \in {None, "u2", "u3"} :
        Do(Request("PATCH /api/resources/:id", sid, id, 0, clientId), TRUE)

DeleteResource ==
    \E sid \in Sids, id \in ResourceIds :
        Do(Request("DELETE /api/resources/:id", sid, id, 0, None), TRUE)

GetHomework ==
    \E sid \in Sids : Do(Request("GET /api/homework", sid, 0, 0, None), TRUE)

PostHomework ==
    \E sid \in Sids, userId \in Users :
        Do(Request("POST /api/homework", sid, 0, 0, userId), TRUE)

PatchHomework ==
    \E sid \in Sids, id \in HomeworkIds, status \in {0, 1}, userId \in {None, "u3"} :
        Do(Request("PATCH /api/homework/:id", sid, id, status, userId), TRUE)

DeleteHomework ==
    \E sid \in Sids, id \in HomeworkIds :
        Do(Request("DELETE /api/homework/:id", sid, id, 0, None), TRUE)

GetMyDataAccess ==
    \E sid \in Sids : Do(Request("GET /api/my-data-access", sid, 0, 0, None), TRUE)

GetSessionStatus ==
    \E sid \in Sids : Do(Request("GET /api/session-status", sid, 0, 0, None), TRUE)

\* the response leaves: the server holds no request
Deliver ==
    /\ last # NoRequest
    /\ last' = NoRequest
    /\ UNCHANGED <<users, plans, goals, objectives, progress, journals, disclosures, prompts,
                   resources, homework, nextId, auditLogs, sessionActivity, sessions, now, probe,
                   calls, notifier>>

\* the clock advances
TickSteps == {30, 31}

Tick ==
    \E d \in TickSteps :
        /\ now + d <= MaxTime
        /\ now' = now + d
        /\ UNCHANGED <<users, plans, goals, objectives, progress, journals, disclosures, prompts,
                       resources, homework, nextId, auditLogs, sessionActivity, sessions, last, probe,
                   calls, notifier>>

\* The identity provider logs a user in on a session: the session carries
\* the principal, and the user row is upserted (role defaults to client).
Login ==
    \E sid \in Sids, u \in Users :
        /\ sessions[sid] = None
        /\ sessions' = [sessions EXCEPT ![sid] = u]
        /\ users' = IF u \in DOMAIN users THEN users
                    ELSE [x \in DOMAIN users \cup {u} |->
                            IF x = u THEN "client" ELSE users[x]]
        /\ UNCHANGED <<plans, goals, objectives, progress, journals, disclosures, prompts,
                       resources, homework, nextId, auditLogs, sessionActivity, now, last, probe,
                   calls, notifier>>

\* The user logs out: the session loses its principal.
Logout ==
    \E sid \in Sids :
        /\ sessions[sid] # None
        /\ sessions' = [sessions EXCEPT ![sid] = None]
        /\ UNCHANGED <<users, plans, goals, objectives, progress, journals, disclosures, prompts,
                       resources, homework, nextId, auditLogs, sessionActivity, now, last, probe,
                   calls, notifier>>

\* ------------------------------------------------- initial state, Spec

\* After construction: the tables are empty and their serial counters at 1;
\* three users have logged in, a therapist and two clients.
Init ==
    /\ users = [u \in Users |-> IF u = "u1" THEN "therapist" ELSE "client"]
    /\ plans = {}
    /\ goals = {}
    /\ objectives = {}
    /\ progress = {}
    /\ journals = {}
    /\ disclosures = {}
    /\ prompts = {}
    /\ resources = {}
    /\ homework = {}
    /\ nextId = [plans |-> 1, goals |-> 1, objectives |-> 1, progress |-> 1,
                 journals |-> 1, disclosures |-> 1, prompts |-> 1, resources |-> 1,
                 homework |-> 1]
    /\ auditLogs = <<>>
    /\ sessionActivity = <<>>
    /\ sessions = [s \in Sids |-> IF s = "s1" THEN "u1" ELSE IF s = "s2" THEN "u2" ELSE "u3"]
    /\ now = 0
    /\ last = NoRequest
    /\ probe = NoProbe
    /\ calls = NoCalls
    /\ notifier = NoNotifier

\* The clinical record routes; a request is taken up when the previous
\* response has left.
Next ==
    \/ Idle /\ GetTreatmentPlans
    \/ Idle /\ GetTreatmentPlan
    \/ Idle /\ PostTreatmentPlan
    \/ Idle /\ PatchTreatmentPlan
    \/ Idle /\ GetGoals
    \/ Idle /\ PostGoal
    \/ Idle /\ PatchGoal
    \/ Idle /\ DeleteGoal
    \/ Idle /\ GetObjectives
    \/ Idle /\ PostObjective
    \/ Idle /\ PatchObjective
    \/ Idle /\ DeleteObjective
    \/ Idle /\ GetProgress
    \/ Idle /\ PostProgress
    \/ Deliver

Spec == Init /\ [][Next]_vars

\* ------------------------------------------------------- SpecSession
\* Sessions over time: logins, logouts, the clock, and requests on two routes
\* that any authenticated caller may use.  The last request stays recorded.

NextSession ==
    \/ Tick
    \/ Login
    \/ Logout
    \/ GetSessionStatus
    \/ GetTreatmentPlans

SpecSession == Init /\ [][NextSession]_vars

\* --------------------------------------------------------- SpecAudit
\* Every route that calls createAuditEntry, with the writes that give those
\* routes something to read.

NextAudit ==
    \/ Idle /\ PostTreatmentPlan
    \/ Idle /\ PostGoal
    \/ Idle /\ PostObjective
    \/ Idle /\ GetTreatmentPlans
    \/ Idle /\ GetTreatmentPlan
    \/ Idle /\ GetGoals
    \/ Idle /\ GetObjectives
    \/ Idle /\ GetProgress
    \/ Idle /\ GetClientJournals
    \/ Idle /\ GetAuditLogs
    \/ Idle /\ PostDataDisclosure
    \/ Idle /\ GetMyDataAccess
    \/ Deliver

SpecAudit == Init /\ [][NextAudit]_vars

\* --------------------------------------------------------- SpecRoles
\* The role helpers as functions: the inputs are drawn in the initial state
\* and one helper is applied to them.

\* request shapes: before the auth middlewares, unauthenticated, authenticated
\* with a subject, with an empty subject and with no subject claim
ReqShapes ==
    {Req(FALSE, FALSE, None, None), Req(TRUE, FALSE, "s1", None),
     Req(TRUE, TRUE, "s1", "u1"), Req(TRUE, TRUE, "s1", ""),
     Req(TRUE, TRUE, "s1", None)}

\* users tables: a row for u1 with any role string, or no row for u1
UserTables == [{"u1"} -> RoleStrings] \cup [{"u2"} -> {"therapist"}]

InitRoles ==
    /\ users \in UserTables
    /\ plans = {}
    /\ goals = {}
    /\ objectives = {}
    /\ progress = {}
    /\ journals = {}
    /\ disclosures = {}
    /\ prompts = {}
    /\ resources = {}
    /\ homework = {}
    /\ nextId = [plans |-> 1, goals |-> 1, objectives |-> 1, progress |-> 1,
                 journals |-> 1, disclosures |-> 1, prompts |-> 1, resources |-> 1,
                 homework |-> 1]
    /\ auditLogs = <<>>
    /\ sessionActivity = <<>>
    /\ sessions = [s \in Sids |-> None]
    /\ now = 0
    /\ last = NoRequest
    /\ probe \in [fn : {"none"}, r : RoleStrings, q : RoleNames, req : ReqShapes,
                  out : {FALSE}, role : {""}]
    /\ calls = NoCalls
    /\ notifier = NoNotifier

Eval(fn, out, role) ==
    /\ probe.fn = "none"
    /\ probe' = [probe EXCEPT !.fn = fn, !.out = out, !.role = role]
    /\ UNCHANGED <<users, plans, goals, objectives, progress, journals, disclosures, prompts,
                   resources, homework, nextId, auditLogs, sessionActivity, sessions, now, last,
                   calls, notifier>>

EvalHasRolePermission == Eval("hasRolePermission", hasRolePermission(probe.r, probe.q), "")

EvalIsTherapistRole == Eval("isTherapistRole", isTherapistRole(probe.r), "")

EvalIsOfficeAdminRole == Eval("isOfficeAdminRole", isOfficeAdminRole(probe.r), "")

EvalGetUserRole == Eval("getUserRole", FALSE, getUserRole(DB, probe.req))

EvalRequireTherapist ==
    Eval("requireTherapist", requireTherapist(DB, probe.req), getUserRole(DB, probe.req))

EvalRequireOfficeAdmin ==
    Eval("requireOfficeAdmin", requireOfficeAdmin(DB, probe.req),
         getUserRole(DB, probe.req))

NextRoles ==
    \/ EvalHasRolePermission
    \/ EvalIsTherapistRole
    \/ EvalIsOfficeAdminRole
    \/ EvalGetUserRole
    \/ EvalRequireTherapist
    \/ EvalRequireOfficeAdmin

SpecRoles == InitRoles /\ [][NextRoles]_vars

\* --------------------------------------------------------- SpecWrites
\* The write routes of the tables that only a therapist may change, called
\* by a therapist, an office admin and a client.

InitStaff ==
    /\ users = [u \in Users |-> IF u = "u1" THEN "therapist"
                                ELSE IF u = "u2" THEN "office_admin" ELSE "client"]
    /\ plans = {}
    /\ goals = {}
    /\ objectives = {}
    /\ progress = {}
    /\ journals = {}
    /\ disclosures = {}
    /\ prompts = {}
    /\ resources = {}
    /\ homework = {}
    /\ nextId = [plans |-> 1, goals |-> 1, objectives |-> 1, progress |-> 1,
                 journals |-> 1, disclosures |-> 1, prompts |-> 1, resources |-> 1,
                 homework |-> 1]
    /\ auditLogs = <<>>
    /\ sessionActivity = <<>>
    /\ sessions = [s \in Sids |-> IF s = "s1" THEN "u1" ELSE IF s = "s2" THEN "u2" ELSE "u3"]
    /\ now = 0
    /\ last = NoRequest
    /\ probe = NoProbe
    /\ calls = NoCalls
    /\ notifier = NoNotifier

NextWrites ==
    \/ Idle /\ PostTreatmentPlan
    \/ Idle /\ PatchTreatmentPlan
    \/ Idle /\ PostGoal
    \/ Idle /\ PatchGoal
    \/ Idle /\ DeleteGoal
    \/ Idle /\ PostObjective
    \/ Idle /\ PatchObjective
    \/ Idle /\ DeleteObjective
    \/ Idle /\ PostProgress
    \/ Idle /\ PostPrompt
    \/ Idle /\ PatchPrompt
    \/ Idle /\ DeletePrompt
    \/ Idle /\ PostResource
    \/ Idle /\ PatchResource
    \/ Idle /\ DeleteResource
    \/ Deliver

SpecWrites == InitStaff /\ [][NextWrites]_vars

\* -------------------------------------------------------- SpecJournals
\* The journal routes, called by a therapist, an office admin and a client.

NextJournals ==
    \/ Idle /\ PostJournal
    \/ Idle /\ GetJournals
    \/ Idle /\ GetClientJournals
    \/ Deliver

SpecJournals == InitStaff /\ [][NextJournals]_vars

\* --------------------------------------------------------- SpecContent
\* Prompts, resources and homework, with two sets of callers: a therapist
\* and two clients, or a therapist, an office admin and a client.

InitContent ==
    /\ users \in {[u \in Users |-> IF u = "u1" THEN "therapist" ELSE "client"],
                   [u \in Users |-> IF u = "u1" THEN "therapist"
                                    ELSE IF u = "u2" THEN "office_admin" ELSE "client"]}
    /\ plans = {}
    /\ goals = {}
    /\ objectives = {}
    /\ progress = {}
    /\ journals = {}
    /\ disclosures = {}
    /\ prompts = {}
    /\ resources = {}
    /\ homework = {}
    /\ nextId = [plans |-> 1, goals |-> 1, objectives |-> 1, progress |-> 1,
                 journals |-> 1, disclosures |-> 1, prompts |-> 1, resources |-> 1,
                 homework |-> 1]
    /\ auditLogs = <<>>
    /\ sessionActivity = <<>>
    /\ sessions = [s \in Sids |-> IF s = "s1" THEN "u1" ELSE IF s = "s2" THEN "u2" ELSE "u3"]
    /\ now = 0
    /\ last = NoRequest
    /\ probe = NoProbe
    /\ calls = NoCalls
    /\ notifier = NoNotifier

NextContent ==
    \/ Idle /\ GetPrompts
    \/ Idle /\ PostPrompt
    \/ Idle /\ PatchPrompt
    \/ Idle /\ DeletePrompt
    \/ Idle /\ GetResources
    \/ Idle /\ PostResource
    \/ Idle /\ PatchResource
    \/ Idle /\ DeleteResource
    \/ Idle /\ GetHomework
    \/ Idle /\ PostHomework
    \/ Idle /\ PatchHomework
    \/ Idle /\ DeleteHomework
    \/ Deliver

SpecContent == InitContent /\ [][NextContent]_vars

\* -------------------------------------------------------- SpecClients
\* Role changes: PATCH /api/clients/:id/role with valid and invalid role
\* values, on sessions that log in and out.

NextClients ==
    \/ Idle /\ PatchRole
    \/ Idle /\ Login
    \/ Idle /\ Logout
    \/ Deliver

SpecClients == InitStaff /\ [][NextClients]_vars

\* -------------------------------------------------------- SpecMonitor
\* The session activity middleware (routes.ts:136-160) and
\* storage.updateSessionActivity step by step, one step per database
\* statement and one per continuation between two awaits, for requests that
\* are in flight at the same time.  The middleware is taken as a unit here
\* and handed the request with its session loaded, the input its guard is
\* written for; Entry has it where routes.ts:136 mounts it.

\* the tables that no step of the middleware touches
records == <<users, plans, goals, objectives, progress, journals, disclosures, prompts,
             resources, homework, nextId>>

\* the guard of routes.ts:137
MwGuard(req) ==
    req.hasFn /\ req.authed /\ req.sessionID # None /\ req.sub \notin {None, ""}

\* routes.ts:137-139: a request of a logged-in session passes the guard and
\* issues storage.getSessionActivity
MwArrive(p) ==
    \E sid \in Sids :
        LET req == ReqAfterSetupAuth(DB, sid) IN
        /\ calls[p].pc = "idle"
        /\ MwGuard(req)
        /\ calls' = [calls EXCEPT ![p] = Call("lookup", sid, req.sub, 0, "", {}, 0)]
        /\ UNCHANGED <<records, auditLogs, sessionActivity, sessions, now, last, probe,
                       notifier>>

\* routes.ts:139: the SELECT of getSessionActivity runs
MwLookup(p) ==
    /\ calls[p].pc = "lookup"
    /\ calls' = [calls EXCEPT ![p].pc = "decide",
                              ![p].rows = getSessionActivity(DB, calls[p].sid)]
    /\ UNCHANGED <<records, auditLogs, sessionActivity, sessions, now, last, probe,
                   notifier>>

\* routes.ts:141-157: the continuation reads the clock and either starts the
\* timeout branch (createAuditEntry issues its INSERT) or calls
\* storage.updateSessionActivity, which issues its own SELECT
MwDecide(p) ==
    /\ calls[p].pc = "decide"
    /\ calls' = [calls EXCEPT
          ![p].pc = IF /\ calls[p].rows # {}
                       /\ \E a \in calls[p].rows :
                             now - a.lastActivity > SESSION_TIMEOUT_MINUTES
                    THEN "timeout" ELSE "upd_lookup",
          ![p].t = now]
    /\ UNCHANGED <<records, auditLogs, sessionActivity, sessions, now, last, probe,
                   notifier>>

\* the session_timeout entries in the log
Timeouts(log) == {i \in 1..Len(log) : log[i].action = "session_timeout"}

\* routes.ts:148-153: the audit INSERT runs (or fails and is swallowed), then
\* req.logout and the 401
MwTimeout(p) ==
    \E dbOk \in BOOLEAN :
        LET a == createAuditEntry(DB,
                    AuditEntry(calls[p].sub, "session_timeout", "session", calls[p].sid,
                               None, now), dbOk)
        IN  /\ calls[p].pc = "timeout"
            /\ Cardinality(Timeouts(a.db.auditLogs)) <= MaxTimeouts
            /\ auditLogs' = a.db.auditLogs
            /\ sessions' = [sessions EXCEPT ![calls[p].sid] = None]
            /\ calls' = [calls EXCEPT ![p] = NoCall]
            /\ UNCHANGED <<records, sessionActivity, now, last, probe, notifier>>

\* part_002:367: the SELECT inside updateSessionActivity runs
UpdLookup(p) ==
    /\ calls[p].pc = "upd_lookup"
    /\ calls' = [calls EXCEPT ![p].pc = "upd_issue",
                              ![p].rows = getSessionActivity(DB, calls[p].sid)]
    /\ UNCHANGED <<records, auditLogs, sessionActivity, sessions, now, last, probe,
                   notifier>>

\* part_002:368-378: the continuation reads the clock (new Date()) and issues
\* the UPDATE when a row was found, the INSERT otherwise
UpdIssue(p) ==
    /\ calls[p].pc = "upd_issue"
    /\ calls' = [calls EXCEPT ![p].pc = IF calls[p].rows # {} THEN "update" ELSE "insert",
                              ![p].t = now]
    /\ UNCHANGED <<records, auditLogs, sessionActivity, sessions, now, last, probe,
                   notifier>>

\* part_002:369-378: the issued statement runs with the value it was built
\* with; then next() (routes.ts:159)
UpdWrite(p) ==
    /\ calls[p].pc \in {"update", "insert"}
    /\ sessionActivity' =
          IF calls[p].pc = "update"
          THEN setSessionActivity(DB, calls[p].sid, calls[p].t).sessionActivity
          ELSE insertSessionActivity(DB, calls[p].sid, calls[p].sub,
                                     calls[p].t).sessionActivity
    /\ calls' = [calls EXCEPT ![p] = NoCall]
    /\ UNCHANGED <<records, auditLogs, sessions, now, last, probe, notifier>>

\* the clock advances by one minute
TickShort ==
    /\ now < MaxShort
    /\ now' = now + 1
    /\ UNCHANGED <<records, auditLogs, sessionActivity, sessions, last, probe, calls,
                   notifier>>

\* one logged-in session with no recorded activity; the other sessions are
\* logged out
InitMonitor ==
    /\ users = [u \in Users |-> IF u = "u1" THEN "therapist" ELSE "client"]
    /\ plans = {}
    /\ goals = {}
    /\ objectives = {}
    /\ progress = {}
    /\ journals = {}
    /\ disclosures = {}
    /\ prompts = {}
    /\ resources = {}
    /\ homework = {}
    /\ nextId = [plans |-> 1, goals |-> 1, objectives |-> 1, progress |-> 1,
                 journals |-> 1, disclosures |-> 1, prompts |-> 1, resources |-> 1,
                 homework |-> 1]
    /\ auditLogs = <<>>
    /\ sessionActivity = <<>>
    /\ sessions = [s \in Sids |-> IF s = "s1" THEN "u1" ELSE None]
    /\ now = 0
    /\ last = NoRequest
    /\ probe = NoProbe
    /\ calls = NoCalls
    /\ notifier = NoNotifier

NextMonitor ==
    \/ Tick
    \/ TickShort
    \/ \E p \in Procs : MwArrive(p)
    \/ \E p \in Procs : MwLookup(p)
    \/ \E p \in Procs : MwDecide(p)
    \/ \E p \in Procs : MwTimeout(p)
    \/ \E p \in Procs : UpdLookup(p)
    \/ \E p \in Procs : UpdIssue(p)
    \/ \E p \in Procs : UpdWrite(p)

SpecMonitor == InitMonitor /\ [][NextMonitor]_vars

\* ------------------------------------------------------ SpecGoalsRace
\* GET /api/treatment-goals/:planId step by step, one step per awaited
\* database statement, for requests in flight while roles are changed
\* through PATCH /api/clients/:id/role.

\* u1 is a therapist, u2 and u3 are clients; u3 has a plan with one goal
InitRace ==
    /\ users = [u \in Users |-> IF u = "u1" THEN "therapist" ELSE "client"]
    /\ plans = {[id |-> 1, clientId |-> "u3"]}
    /\ goals = {[id |-> 1, planId |-> 1]}
    /\ objectives = {}
    /\ progress = {}
    /\ journals = {}
    /\ disclosures = {}
    /\ prompts = {}
    /\ resources = {}
    /\ homework = {}
    /\ nextId = [plans |-> 2, goals |-> 2, objectives |-> 1, progress |-> 1,
                 journals |-> 1, disclosures |-> 1, prompts |-> 1, resources |-> 1,
                 homework |-> 1]
    /\ auditLogs = <<>>
    /\ sessionActivity = <<>>
    /\ sessions = [s \in Sids |-> IF s = "s1" THEN "u1" ELSE IF s = "s2" THEN "u2" ELSE "u3"]
    /\ now = 0
    /\ last = NoRequest
    /\ probe = NoProbe
    /\ calls = NoCalls
    /\ notifier = NoNotifier

\* the request object of the call in flight
CallReq(c) == Req(TRUE, TRUE, c.sid, c.sub)

\* routes.ts:375-377: the request passes isAuthenticated; the handler takes
\* userId and issues the SELECT of getUserRole
GoalsArrive(p) ==
    \E sid \in Sids, planId \in PlanIds :
        LET req == ReqAfterSetupAuth(DB, sid) IN
        /\ calls[p].pc = "idle"
        /\ isAuthenticated(req)
        /\ calls' = [calls EXCEPT ![p] = Call("role", sid, getUserId(req), planId, "", {}, 0)]
        /\ UNCHANGED <<records, auditLogs, sessionActivity, sessions, now, last, probe,
                       notifier>>

\* routes.ts:377: const role = await getUserRole(req); next the handler
\* calls verifyPlanAccess, whose getUserRole issues its own SELECT
GoalsRole(p) ==
    /\ calls[p].pc = "role"
    /\ calls' = [calls EXCEPT ![p].pc = "verify_role",
                              ![p].role = getUserRole(DB, CallReq(calls[p]))]
    /\ UNCHANGED <<records, auditLogs, sessionActivity, sessions, now, last, probe,
                   notifier>>

\* routes.ts:362-364: verifyPlanAccess reads the role again; a therapist is
\* let through, otherwise the plans are fetched
GoalsVerifyRole(p) ==
    /\ calls[p].pc = "verify_role"
    /\ calls' = [calls EXCEPT
          ![p].pc = IF isTherapistRole(getUserRole(DB, CallReq(calls[p])))
                    THEN "plans" ELSE "verify_plans"]
    /\ UNCHANGED <<records, auditLogs, sessionActivity, sessions, now, last, probe,
                   notifier>>

\* routes.ts:367-369 and 380-382: the plan must belong to the caller, or 403
GoalsVerifyPlans(p) ==
    /\ calls[p].pc = "verify_plans"
    /\ Idle
    /\ IF \E pl \in getAllTreatmentPlans(DB) :
              pl.id = calls[p].n /\ pl.clientId = calls[p].sub
       THEN /\ calls' = [calls EXCEPT ![p].pc = "plans"]
            /\ last' = last
       ELSE /\ calls' = [calls EXCEPT ![p] = NoCall]
            /\ last' = [req |-> Request("GET /api/treatment-goals/:planId",
                                        calls[p].sid, calls[p].n, 0, None),
                        user |-> calls[p].sub, role |-> calls[p].role, time |-> now,
                        status |-> 403, msg |-> "Access denied", body |-> {},
                        handled |-> TRUE, checked |-> FALSE, audit |-> "none"]
    /\ UNCHANGED <<records, auditLogs, sessionActivity, sessions, now, probe, notifier>>

\* routes.ts:385-387: the plans are fetched for the audit decision, which
\* uses the role read at routes.ts:377
GoalsPlans(p) ==
    /\ calls[p].pc = "plans"
    /\ LET plan == {pl \in getAllTreatmentPlans(DB) : pl.id = calls[p].n} IN
       calls' = [calls EXCEPT
          ![p].pc = IF plan # {} /\ isTherapistRole(calls[p].role)
                    THEN "audit" ELSE "goals",
          ![p].rows = plan]
    /\ UNCHANGED <<records, auditLogs, sessionActivity, sessions, now, last, probe,
                   notifier>>

\* routes.ts:388: the audit INSERT runs, or fails and is swallowed
GoalsAudit(p) ==
    \E dbOk \in BOOLEAN :
        LET a == createAuditEntry(DB,
                    AuditEntry(calls[p].sub, "view", "treatment_goals",
                               ToString(calls[p].n),
                               (CHOOSE pl \in calls[p].rows : TRUE).clientId, now), dbOk)
        IN  /\ calls[p].pc = "audit"
            /\ Len(a.db.auditLogs) <= MaxAudit
            /\ auditLogs' = a.db.auditLogs
            /\ calls' = [calls EXCEPT ![p].pc = "goals", ![p].audit = a.audit]
            /\ UNCHANGED <<records, sessionActivity, sessions, now, last, probe, notifier>>

\* routes.ts:391-392: the goals are fetched and sent
GoalsRespond(p) ==
    /\ calls[p].pc = "goals"
    /\ Idle
    /\ last' = [req |-> Request("GET /api/treatment-goals/:planId",
                                calls[p].sid, calls[p].n, 0, None),
                user |-> calls[p].sub, role |-> calls[p].role, time |-> now,
                status |-> 200, msg |-> "", body |-> getGoals(DB, calls[p].n),
                handled |-> TRUE, checked |-> FALSE, audit |-> calls[p].audit]
    /\ calls' = [calls EXCEPT ![p] = NoCall]
    /\ UNCHANGED <<records, auditLogs, sessionActivity, sessions, now, probe, notifier>>

\* one GET is in flight at a time while roles change
RaceProcs == {"p1"}

NextGoalsRace ==
    \/ \E p \in RaceProcs : GoalsArrive(p)
    \/ \E p \in RaceProcs : GoalsRole(p)
    \/ \E p \in RaceProcs : GoalsVerifyRole(p)
    \/ \E p \in RaceProcs : GoalsVerifyPlans(p)
    \/ \E p \in RaceProcs : GoalsPlans(p)
    \/ \E p \in RaceProcs : GoalsAudit(p)
    \/ \E p \in RaceProcs : GoalsRespond(p)
    \/ Idle /\ PatchRole
    \/ Deliver

SpecGoalsRace == InitRace /\ [][NextGoalsRace]_vars

\* ------------------------------------------------------ SpecReminders
\* The browser's ReminderNotifier component (client ReminderNotifier.tsx)
\* during one lifetime: the /api/reminders query delivers data, the effect
\* runs over it, the browser clock advances.  Times are in half minutes.

\* NOTIFICATION_WINDOW = 5 * 60000 ms
NOTIFICATION_WINDOW == 10

\* the literal 60000 ms of "timeUntil > -60000"
JUST_PASSED == 2

ReminderIds == {1, 2}

\* scheduledTime values of the reminders the server returns
ScheduledTimes == {4, 12}

\* what GET /api/reminders can deliver: rows with distinct ids (id is the
\* primary key), as a function id -> [scheduledTime, sent]
ReminderData ==
    UNION {[ids -> [scheduledTime : ScheduledTimes, sent : BOOLEAN]] :
              ids \in SUBSET ReminderIds}

\* the two statements of a notifying branch without the second (mutant)
Notify_unrecorded(n, id, ok) ==
    [n EXCEPT !.shown = IF ok THEN Append(@, [id |-> id, at |-> n.clock]) ELSE @]

\* sendNotification(...) and notifiedIds.current.add(reminder.id);
\* sendNotification shows nothing when the Notification constructor throws
\* (ok = FALSE, use-notifications.ts:27-47)
Notify(n, id, ok) ==
    [n EXCEPT !.shown = IF ok THEN Append(@, [id |-> id, at |-> n.clock]) ELSE @,
              !.notifiedIds = @ \cup {id}]

\* the body of reminders.forEach for one reminder
ForReminder(n, id, ok) ==
    LET reminder == n.reminders[id]
        timeUntil == reminder.scheduledTime - n.clock
    IN  IF id \in n.notifiedIds THEN n
        ELSE IF reminder.sent THEN n
        ELSE LET n1 == IF timeUntil > 0 /\ timeUntil <= NOTIFICATION_WINDOW
                       THEN Notify(n, id, ok) ELSE n
             IN  IF timeUntil <= 0 /\ timeUntil > -JUST_PASSED
                 THEN Notify(n1, id, ok) ELSE n1

\* reminders.forEach over the ids from k on, in array order
RECURSIVE ForEachFrom(_, _, _)
ForEachFrom(n, k, ok) ==
    IF k > 2 THEN n
    ELSE ForEachFrom(IF k \in DOMAIN n.reminders THEN ForReminder(n, k, ok) ELSE n,
                     k + 1, ok)

\* the effect of ReminderNotifier (part_003:19-52)
RunEffect(n, ok) ==
    IF ~n.isGranted \/ DOMAIN n.reminders = {} THEN n
    ELSE ForEachFrom([n EXCEPT !.lastRun = n.clock], 1, ok)

\* everything on the server side, which the component does not change
server == <<records, auditLogs, sessionActivity, sessions, now, last, probe, calls>>

\* the user grants the notification permission; isGranted changes and the
\* effect runs
Grant ==
    /\ ~notifier.isGranted
    /\ notifier' = RunEffect([notifier EXCEPT !.isGranted = TRUE], TRUE)
    /\ UNCHANGED server

\* the /api/reminders query (enabled while granted) delivers data; the
\* effect runs over it
Poll ==
    \E data \in ReminderData, ok \in BOOLEAN :
        /\ notifier.isGranted
        /\ notifier' = RunEffect([notifier EXCEPT !.reminders = data], ok)
        /\ Len(notifier'.shown) <= MaxShown
        /\ UNCHANGED server

\* the browser clock advances by half a minute
ClockTick ==
    /\ notifier.clock < MaxClock
    /\ notifier' = [notifier EXCEPT !.clock = @ + 1]
    /\ UNCHANGED server

NextReminders ==
    \/ Grant
    \/ Poll
    \/ ClockTick

SpecReminders == Init /\ [][NextReminders]_vars

\* ===================================================================
\* Properties
\* ===================================================================

\* a request is answered in this step (Spec and SpecAudit)
Answered == Idle /\ last' # NoRequest

\* the ids of the plans of user u, and of the goals under them
OwnPlanIds(u) == {p.id : p \in {q \in plans : q.clientId = u}}

OwnGoalIds(u) == {g.id : g \in {h \in goals : h.planId \in OwnPlanIds(u)}}

\* the recorded request asks for a plan, goals or objectives that are not
\* the caller's own (the id may name another client's rows or nothing)
ForeignRead ==
    \/ /\ last.req.op = "GET /api/treatment-plans/:clientId"
       /\ last.req.s # last.user
    \/ /\ last.req.op = "GET /api/treatment-goals/:planId"
       /\ last.req.n \notin OwnPlanIds(last.user)
    \/ /\ last.req.op = "GET /api/treatment-objectives/:goalId"
       /\ last.req.n \notin OwnGoalIds(last.user)

\* C1: a caller whose role is client and who asks for another client's
\* treatment plan, goals or objectives gets 403 "Access denied" and no rows,
\* for every target id, whether or not the id exists in the store.
C1_ClientCrossAccessDenied ==
    (last.user # None /\ last.role = "client" /\ ForeignRead)
        => (last.status = 403 /\ last.msg = "Access denied" /\ last.body = {})

\* C1 witness: a client asked for the goals of an existing plan of another
\* client, that has goals, and was refused.
C1_Witness ==
    /\ last.req.op = "GET /api/treatment-goals/:planId"
    /\ last.role = "client"
    /\ last.user # None
    /\ \E p \in plans :
          /\ p.id = last.req.n
          /\ p.clientId # last.user
          /\ \E g \in goals : g.planId = p.id
    /\ last.status = 403

\* the five read routes of the treatment records
TreatmentReads ==
    {"GET /api/treatment-plans", "GET /api/treatment-plans/:clientId",
     "GET /api/treatment-goals/:planId", "GET /api/treatment-objectives/:goalId",
     "GET /api/treatment-progress/:objectiveId"}

\* the clients that own the rows of a response of a read route
PlanOwners(ids) == {p.clientId : p \in {q \in plans : q.id \in ids}}

GoalOwners(ids) == PlanOwners({g.planId : g \in {h \in goals : h.id \in ids}})

ObjectiveOwners(ids) ==
    GoalOwners({o.goalId : o \in {x \in objectives : x.id \in ids}})

Owners(op, body) ==
    IF op \in {"GET /api/treatment-plans", "GET /api/treatment-plans/:clientId"}
    THEN {p.clientId : p \in body}
    ELSE IF op = "GET /api/treatment-goals/:planId"
    THEN PlanOwners({g.planId : g \in body})
    ELSE IF op = "GET /api/treatment-objectives/:goalId"
    THEN GoalOwners({o.goalId : o \in body})
    ELSE ObjectiveOwners({n.objectiveId : n \in body})

\* a therapist is answered, in this step, with treatment rows of somebody else
TherapistReadsClient ==
    /\ Answered
    /\ last'.role = "therapist"
    /\ last'.req.op \in TreatmentReads
    /\ last'.status = 200
    /\ \E c \in Owners(last'.req.op, last'.body) : c # last'.user

\* exactly one entry is appended to the audit log in this step
OneEntryAppended ==
    /\ Len(auditLogs') = Len(auditLogs) + 1
    /\ SubSeq(auditLogs', 1, Len(auditLogs)) = auditLogs

\* C2 as stated: every read by a therapist of a client's treatment plan,
\* goals, objectives or progress appends exactly one audit entry, whose
\* targetUserId is the client whose data is returned.
C2_Original ==
    [][TherapistReadsClient =>
          /\ OneEntryAppended
          /\ auditLogs'[Len(auditLogs')].userId = last'.user
          /\ Owners(last'.req.op, last'.body) =
                {auditLogs'[Len(auditLogs')].targetUserId}]_vars

\* C2: a read by a therapist of another user's treatment rows makes one audit
\* write.  When the audit store accepts it, exactly one entry is appended: for
\* the list of all plans a view_all entry with no targetUserId, for the other
\* four routes a view entry whose targetUserId is the client that owns the
\* returned rows.  When the audit store rejects it, nothing is appended and
\* the rows are returned all the same.
C2_TherapistReadAudited ==
    [][TherapistReadsClient =>
          IF last'.audit = "written"
          THEN /\ OneEntryAppended
               /\ auditLogs'[Len(auditLogs')].userId = last'.user
               /\ IF last'.req.op = "GET /api/treatment-plans"
                  THEN /\ auditLogs'[Len(auditLogs')].action = "view_all"
                       /\ auditLogs'[Len(auditLogs')].targetUserId = None
                  ELSE /\ auditLogs'[Len(auditLogs')].action = "view"
                       /\ Owners(last'.req.op, last'.body) =
                             {auditLogs'[Len(auditLogs')].targetUserId}
          ELSE /\ last'.audit = "failed"
               /\ auditLogs' = auditLogs]_vars

\* C2 witness: a therapist read the objectives of a goal of client u2 and the
\* read was logged with u2 as its target.
C2_Witness ==
    /\ last.req.op = "GET /api/treatment-objectives/:goalId"
    /\ last.role = "therapist"
    /\ last.status = 200
    /\ last.body # {}
    /\ last.audit = "written"
    /\ Len(auditLogs) > 0
    /\ auditLogs[Len(auditLogs)].resourceType = "treatment_objectives"
    /\ auditLogs[Len(auditLogs)].targetUserId = "u2"
    /\ last.user # "u2"

\* C3 as stated: every write of a treatment plan, goal, objective or progress
\* note appends an audit entry with action create, update or delete that
\* names the actor.
C3_WritesAudited ==
    [][<<plans, goals, objectives, progress>>' # <<plans, goals, objectives, progress>> =>
          /\ OneEntryAppended
          /\ auditLogs'[Len(auditLogs')].action \in {"create", "update", "delete"}
          /\ auditLogs'[Len(auditLogs')].userId = last'.user]_vars

\* a request is answered in this step (SpecSession, where the last request
\* stays recorded)
Requested == last' # last

\* the recorded last activity of a session is at most 30 minutes before now,
\* or there is none
NotIdle(sid) ==
    \A a \in getSessionActivity(DB, sid) :
        now - a.lastActivity <= SESSION_TIMEOUT_MINUTES

\* C4 as stated: a request of an authenticated session with no activity row,
\* or with a last activity at most 30 minutes old, proceeds to its handler
\* and sets the session's lastActivity to the time of the request.
C4_ActiveSessionRefreshed ==
    [][(Requested /\ last'.user # None /\ NotIdle(last'.req.sid)) =>
          /\ last'.handled
          /\ \E i \in 1..Len(sessionActivity') :
                /\ sessionActivity'[i].sessionId = last'.req.sid
                /\ sessionActivity'[i].lastActivity = now]_vars

\* C5 as stated, the recorded last activity of a session being the time of
\* its last handled request: a request of the same session and principal more
\* than 30 minutes later is rejected with 401 "Session expired due to
\* inactivity", no handler runs, the session is logged out and exactly one
\* session_timeout entry is written.
C5_IdleSessionExpired ==
    [][(/\ Requested
        /\ last.handled
        /\ last.user # None
        /\ last'.req.sid = last.req.sid
        /\ last'.user = last.user
        /\ now - last.time > SESSION_TIMEOUT_MINUTES) =>
          /\ last'.status = 401
          /\ last'.msg = "Session expired due to inactivity"
          /\ ~last'.handled
          /\ sessions'[last'.req.sid] = None
          /\ OneEntryAppended
          /\ auditLogs'[Len(auditLogs')].action = "session_timeout"]_vars

\* C6 as stated: the idle check sees every authenticated request, so a
\* handler runs for an authenticated session only after the check was applied
\* to the request with the session's principal and id established.
C6_IdleCheckCoversRequests ==
    (last.user # None /\ last.handled) => last.checked

\* the routes that call createAuditEntry
AuditedRoutes ==
    {"GET /api/treatment-plans", "GET /api/treatment-plans/:clientId",
     "GET /api/treatment-goals/:planId", "GET /api/treatment-objectives/:goalId",
     "GET /api/treatment-progress/:objectiveId",
     "GET /api/journals/client/:clientId", "GET /api/audit-logs",
     "POST /api/data-disclosures"}

\* the requests to those routes
AuditedRequests ==
    {Request(op, sid, n, 0, s) :
        op \in AuditedRoutes, sid \in Sids, n \in {-1} \cup PlanIds,
        s \in Users \cup {None}}

\* the store without its audit table
NonAudit(db) == [db EXCEPT !.auditLogs = <<>>]

\* C7 as stated: for every endpoint that calls createAuditEntry the response
\* (status, message and body) and the non-audit tables are the same whether
\* the audit write succeeds or throws, and a failed write is not retried.
C7_Original ==
    Idle =>
        \A r \in AuditedRequests :
            \E ok \in {Route(r, DB, now, TRUE)}, ko \in {Route(r, DB, now, FALSE)} :
                /\ ko.status = ok.status
                /\ ko.msg = ok.msg
                /\ ko.body = ok.body
                /\ NonAudit(ko.db) = NonAudit(ok.db)
                /\ ko.audit = "failed" => ko.db.auditLogs = auditLogs

\* C7: for every endpoint that calls createAuditEntry the status, the message
\* and the non-audit tables are the same whether the audit write succeeds or
\* throws, and a failed write appends nothing (it is not retried).  The body
\* is the same too, except on GET /api/audit-logs, whose body is the audit
\* table itself: after a failed write it is the list as it was before the
\* request, without the entry for this view.
C7_AuditFailureSwallowed ==
    Idle =>
        \A r \in AuditedRequests :
            \E ok \in {Route(r, DB, now, TRUE)}, ko \in {Route(r, DB, now, FALSE)} :
                /\ ko.status = ok.status
                /\ ko.msg = ok.msg
                /\ NonAudit(ko.db) = NonAudit(ok.db)
                /\ ko.audit = "failed" => ko.db.auditLogs = auditLogs
                /\ IF r.op = "GET /api/audit-logs"
                   THEN ko.audit = "failed" =>
                            /\ ko.body = getAuditLogs(DB, r.s, r.n)
                            /\ ko.body \subseteq ok.body
                   ELSE ko.body = ok.body

\* C7 witness: a disclosure was recorded and answered 201 although the write
\* of its audit entry failed.
C7_Witness ==
    /\ last.req.op = "POST /api/data-disclosures"
    /\ last.audit = "failed"
    /\ last.status = 201
    /\ last.body # {}
    /\ disclosures # {}
    /\ auditLogs = <<>>

\* C8: for every role string r and required role q, hasRolePermission(r, q)
\* is true exactly when rank(r) >= rank(q).
C8_HasRolePermissionIsRankOrder ==
    probe.fn = "hasRolePermission" => (probe.out <=> rank(probe.r) >= rank(probe.q))

\* C8 witness: office_admin was tested against client and permitted.
C8_Witness ==
    /\ probe.fn = "hasRolePermission"
    /\ probe.r = "office_admin"
    /\ probe.q = "client"
    /\ probe.out

\* C9: isTherapistRole(r) = hasRolePermission(r, "therapist"), true only for
\* therapist; isOfficeAdminRole(r) = hasRolePermission(r, "office_admin"),
\* true exactly for office_admin and therapist; the route guards pass exactly
\* when these predicates hold of the caller's role.
C9_RolePredicatesAgree ==
    /\ probe.fn = "isTherapistRole" =>
          /\ probe.out = hasRolePermission(probe.r, "therapist")
          /\ probe.out <=> probe.r = "therapist"
    /\ probe.fn = "isOfficeAdminRole" =>
          /\ probe.out = hasRolePermission(probe.r, "office_admin")
          /\ probe.out <=> probe.r \in {"office_admin", "therapist"}
    /\ probe.fn = "requireTherapist" =>
          (probe.out <=> rank(probe.role) >= rank("therapist"))
    /\ probe.fn = "requireOfficeAdmin" =>
          (probe.out <=> rank(probe.role) >= rank("office_admin"))

\* C9 witness: isOfficeAdminRole was applied to therapist and held.
C9_Witness ==
    /\ probe.fn = "isOfficeAdminRole"
    /\ probe.r = "therapist"
    /\ probe.out

\* the request carries no authenticated principal
NoPrincipal(req) == ~req.hasFn \/ ~req.authed \/ req.sub \in {None, ""}

\* C10: getUserRole returns "client" when the request has no authenticated
\* principal, when the principal has no user row and when the row's role is
\* empty; otherwise it returns the stored role.
C10_GetUserRoleDefaultsToClient ==
    probe.fn = "getUserRole" =>
        probe.role =
            IF NoPrincipal(probe.req) THEN "client"
            ELSE IF probe.req.sub \notin DOMAIN users THEN "client"
            ELSE IF users[probe.req.sub] = "" THEN "client"
            ELSE users[probe.req.sub]

\* C10 witness: the principal's row has an empty role and the answer is client.
C10_Witness ==
    /\ probe.fn = "getUserRole"
    /\ ~NoPrincipal(probe.req)
    /\ probe.req.sub \in DOMAIN users
    /\ users[probe.req.sub] = ""
    /\ probe.role = "client"

\* C11: for goal G under plan P owned by client C, GET
\* /api/treatment-objectives/G returns the objectives of G to C and to any
\* therapist, and 403 to every other caller, also to one with a plan of
\* their own.
C11_ObjectivesOwnerOrTherapist ==
    (last.req.op = "GET /api/treatment-objectives/:goalId" /\ last.user # None) =>
        \A p \in plans :
            (\E g \in goals : g.id = last.req.n /\ g.planId = p.id) =>
                IF last.role = "therapist" \/ last.user = p.clientId
                THEN /\ last.status = 200
                     /\ last.body = {o \in objectives : o.goalId = last.req.n}
                ELSE /\ last.status = 403
                     /\ last.body = {}

\* C11 witness: a client with a plan of their own asked for the objectives
\* of a goal under another client's plan, that has an objective, and got 403.
C11_Witness ==
    /\ last.req.op = "GET /api/treatment-objectives/:goalId"
    /\ last.role = "client"
    /\ \E p \in plans : p.clientId = last.user
    /\ \E p \in plans, g \in goals, o \in objectives :
          /\ p.clientId # last.user
          /\ g.planId = p.id
          /\ g.id = last.req.n
          /\ o.goalId = g.id
    /\ last.status = 403

\* the store without the rows that the recorded request asks for
Erased ==
    IF last.req.op = "GET /api/treatment-plans/:clientId"
    THEN [DB EXCEPT !.plans = {p \in plans : p.clientId # last.req.s}]
    ELSE IF last.req.op = "GET /api/treatment-goals/:planId"
    THEN [DB EXCEPT !.plans = {p \in plans : p.id # last.req.n}]
    ELSE [DB EXCEPT !.goals = {g \in goals : g.id # last.req.n}]

\* C12: a denied request of a client reveals nothing about existence: the
\* response to a read of a plan, goals or objectives that are not the
\* caller's is the same (status, message, body) in the store where the
\* requested plan or goal does not exist.
C12_DenialHidesExistence ==
    (last.user # None /\ last.role = "client" /\ ForeignRead) =>
        \E out \in {Route(last.req, Erased, last.time, TRUE)} :
            /\ out.status = last.status
            /\ out.msg = last.msg
            /\ out.body = last.body

\* C12 witness: a client was denied the plan of another client who has one,
\* so the compared stores do differ.
C12_Witness ==
    /\ last.req.op = "GET /api/treatment-plans/:clientId"
    /\ last.role = "client"
    /\ last.user # None
    /\ last.req.s # last.user
    /\ \E p \in plans : p.clientId = last.req.s
    /\ Erased.plans # plans
    /\ last.status = 403

\* the tables that only a therapist may change
TherapistTables == <<prompts, resources, plans, goals, objectives, progress>>

\* the create / update / delete routes of those tables
TherapistWrites ==
    {"POST /api/prompts", "PATCH /api/prompts/:id", "DELETE /api/prompts/:id",
     "POST /api/resources", "PATCH /api/resources/:id", "DELETE /api/resources/:id",
     "POST /api/treatment-plans", "PATCH /api/treatment-plans/:id",
     "POST /api/treatment-goals", "PATCH /api/treatment-goals/:id",
     "DELETE /api/treatment-goals/:id",
     "POST /api/treatment-objectives", "PATCH /api/treatment-objectives/:id",
     "DELETE /api/treatment-objectives/:id", "POST /api/treatment-progress"}

\* C13: the prompts, resources, plan, goal, objective and progress tables are
\* changed only by requests of a caller whose role resolves to therapist;
\* every create, update or delete request on them by a client or an office
\* admin gets 403 and leaves them unchanged.
C13_OnlyTherapistWrites ==
    [][/\ TherapistTables' # TherapistTables =>
            (Answered /\ last'.user # None /\ last'.role = "therapist")
       /\ (/\ Answered
           /\ last'.req.op \in TherapistWrites
           /\ last'.user # None
           /\ last'.role # "therapist") =>
            (last'.status = 403 /\ TherapistTables' = TherapistTables)]_vars

\* C13 witness: an office admin tried to delete an existing prompt and got
\* 403; the prompt is still there.
C13_Witness ==
    /\ last.req.op = "DELETE /api/prompts/:id"
    /\ last.role = "office_admin"
    /\ last.status = 403
    /\ \E x \in prompts : x.id = last.req.n

\* the routes that answer with journal rows
JournalRoutes ==
    {"GET /api/journals", "GET /api/journals/client/:clientId", "POST /api/journals"}

\* C14: no response contains a journal entry of another user unless the
\* caller is a therapist and the entry is shared: GET /api/journals returns
\* exactly the caller's entries, and GET /api/journals/client/:clientId is
\* refused to a non-therapist and returns exactly that client's shared
\* entries to a therapist.
C14_JournalsPrivate ==
    (last.req.op \in JournalRoutes /\ last.user # None) =>
        /\ \A j \in last.body :
              j.userId = last.user \/ (last.role = "therapist" /\ j.isShared)
        /\ last.req.op = "GET /api/journals" =>
              last.body = {j \in journals : j.userId = last.user}
        /\ last.req.op = "GET /api/journals/client/:clientId" =>
              IF last.role = "therapist"
              THEN last.body = {j \in journals : j.userId = last.req.s /\ j.isShared}
              ELSE last.status = 403 /\ last.body = {}

\* C14 witness: a therapist asked for the journals of a client whose only
\* entry is not shared, and got none.
C14_Witness ==
    /\ last.req.op = "GET /api/journals/client/:clientId"
    /\ last.role = "therapist"
    /\ last.status = 200
    /\ \E j \in journals : j.userId = last.req.s /\ ~j.isShared
    /\ last.req.s # last.user
    /\ last.body = {}

\* C15 as stated: the list that GET /api/prompts returns to a caller who is
\* not a therapist contains only prompts whose clientId is null or the caller.
C15_PromptsScoped ==
    (last.req.op = "GET /api/prompts" /\ last.user # None /\ last.role # "therapist") =>
        \A x \in last.body : x.clientId \in {None, last.user}

\* C16: GET /api/resources returns to a caller who is not a therapist exactly
\* the resources whose clientId is null or the caller's id, and to a
\* therapist every resource.
C16_ResourcesScoped ==
    (last.req.op = "GET /api/resources" /\ last.user # None) =>
        /\ last.status = 200
        /\ last.body = IF last.role = "therapist" THEN resources
                       ELSE {x \in resources : x.clientId \in {None, last.user}}

\* C16 witness: a caller who is not a therapist listed the resources while
\* one scoped to another client exists, and did not get it.
C16_Witness ==
    /\ last.req.op = "GET /api/resources"
    /\ last.role # "therapist"
    /\ last.user # None
    /\ \E x \in resources : x.clientId \notin {None, last.user}
    /\ last.body = {}
    /\ last.status = 200

\* the homework row h with the submitted fields written into it
Patched(h, status, userId) ==
    [h EXCEPT !.status = status, !.userId = IF userId = None THEN @ ELSE userId]

\* C17: PATCH /api/homework/:id makes no role or ownership check: for every
\* authenticated caller and every homework row, owned by the caller or not,
\* the request is answered 200 and the row carries the submitted status and,
\* when submitted, the submitted owner.
C17_HomeworkPatchUnguarded ==
    Idle =>
        \A sid \in Sids, h \in homework, m \in {0, 1}, userId \in {None, "u3"} :
            Principal(DB, sid) # None =>
                \E out \in {Route(Request("PATCH /api/homework/:id", sid, h.id, m, userId),
                                  DB, now, TRUE)} :
                    /\ out.status = 200
                    /\ out.db.homework =
                          (homework \ {h}) \cup
                          {Patched(h, IF m = 1 THEN "completed" ELSE "pending", userId)}

\* C17 witness: a client completed a homework row that belongs to someone else.
C17_Witness ==
    /\ last.req.op = "PATCH /api/homework/:id"
    /\ last.role = "client"
    /\ last.status = 200
    /\ last.req.s = None
    /\ \E h \in homework :
          /\ h.id = last.req.n
          /\ h.userId # last.user
          /\ h.status = "completed"
          /\ users[h.userId] = "client"

\* the audit entries about user u, as positions in the log
AboutUser(u) == {i \in 1..Len(auditLogs) : auditLogs[i].targetUserId = u}

\* the store with the actor of audit entry i replaced by user u
WithActor(i, u) == [DB EXCEPT !.auditLogs[i].userId = u]

\* C18: GET /api/my-data-access returns exactly the projections of the audit
\* entries whose targetUserId is the caller; an item carries only action,
\* resourceType, createdAt and accessedBy, which is "You" when the actor is
\* the caller and "Healthcare Provider" otherwise; the response is the same
\* in the store where another user than the caller was the actor.
C18_DataAccessViewSanitized ==
    (last.req.op = "GET /api/my-data-access" /\ last.user # None) =>
        /\ last.status = 200
        /\ \A x \in last.body :
              /\ DOMAIN x = {"action", "resourceType", "createdAt", "accessedBy"}
              /\ \E i \in AboutUser(last.user) :
                    /\ x.action = auditLogs[i].action
                    /\ x.resourceType = auditLogs[i].resourceType
                    /\ x.createdAt = auditLogs[i].createdAt
                    /\ x.accessedBy = IF auditLogs[i].userId = last.user
                                      THEN "You" ELSE "Healthcare Provider"
        /\ \A i \in AboutUser(last.user) :
              \E x \in last.body :
                  /\ x.action = auditLogs[i].action
                  /\ x.resourceType = auditLogs[i].resourceType
                  /\ x.createdAt = auditLogs[i].createdAt
        /\ \A i \in 1..Len(auditLogs), u \in Users \ {last.user} :
              auditLogs[i].userId # last.user =>
                  \E out \in {Route(last.req, WithActor(i, u), last.time, TRUE)} :
                      out.status = last.status /\ out.body = last.body

\* C18 witness: a client looked at their data-access view after another user
\* had read their records, and sees "Healthcare Provider".
C18_Witness ==
    /\ last.req.op = "GET /api/my-data-access"
    /\ last.role = "client"
    /\ last.status = 200
    /\ \E i \in AboutUser(last.user) : auditLogs[i].userId # last.user
    /\ \E x \in last.body : x.accessedBy = "Healthcare Provider"

\* C19 as stated: when every audited access to the records of client C was
\* made by C, GET /api/my-data-access for C is empty; entries surface there
\* only for reads by a different actor.
C19_OwnReadsNotListed ==
    (last.req.op = "GET /api/my-data-access" /\ last.user # None) =>
        /\ (\A i \in AboutUser(last.user) : auditLogs[i].userId = last.user) =>
              last.body = {}
        /\ \A x \in last.body : x.accessedBy # "You"

\* sequence a is an initial part of sequence b
IsPrefix(a, b) == Len(b) >= Len(a) /\ SubSeq(b, 1, Len(a)) = a

\* C20: audit entries are append-only: in every step the log keeps every
\* entry it had, in place and with the same fields, and no audited request,
\* whether its audit write succeeds or fails, would leave a log that does not
\* start with the present one.
C20_AuditAppendOnly ==
    /\ [][IsPrefix(auditLogs, auditLogs')]_vars
    /\ [](Idle =>
            \A r \in AuditedRequests, dbOk \in BOOLEAN :
                IsPrefix(auditLogs, Route(r, DB, now, dbOk).db.auditLogs))

\* C20 witness: the log holds an entry written by an earlier request, a later
\* audited request, whose own audit write failed, has been answered, and a
\* further audited request would add a second entry behind the first.
C20_Witness ==
    /\ Len(auditLogs) > 0
    /\ last.req.op \in AuditedRoutes
    /\ last.audit = "failed"
    /\ last.status \in {200, 201}
    /\ \E r \in AuditedRequests :
          Len(Route(r, DB, now, TRUE).db.auditLogs) = Len(auditLogs) + 1

\* C25: after any sequence of role-change requests every user's role is one
\* of therapist, office_admin, client; PATCH /api/clients/:id/role with any
\* other role value answers 400 and leaves the users unchanged; a role
\* changes only in a step that answers such a request of a caller whose role
\* is therapist.
C25_RolesStayEnumerated ==
    /\ [](\A u \in DOMAIN users : users[u] \in RoleNames)
    /\ [][(Answered /\ last'.req.op = "PATCH /api/clients/:id/role" /\
           last'.role = "therapist" /\ last'.req.role \notin RoleNames) =>
              (last'.status = 400 /\ users' = users)]_vars
    /\ [][users' # users =>
              /\ Answered
              /\ last'.req.op = "PATCH /api/clients/:id/role"
              /\ last'.role = "therapist"
              /\ last'.status = 200
              /\ users' = [users EXCEPT ![last'.req.s] = last'.req.role]]_vars

\* C25 witness: a therapist made a client an office admin, and afterwards a
\* request with the role value "admin" was answered 400.
C25_Witness ==
    /\ users["u3"] = "office_admin"
    /\ last.req.op = "PATCH /api/clients/:id/role"
    /\ last.role = "therapist"
    /\ last.req.role = "admin"
    /\ last.status = 400

\* C26 as stated: every stored treatment progress row has a progressLevel
\* within 0..100.
C26_ProgressLevelBounded ==
    \A p \in progress : p.progressLevel \in 0..100

\* C29 as stated: GET /api/audit-logs?targetUserId=X returns exactly the
\* audit entries whose targetUserId is X, restricted to createdAt >= startDate
\* when a start date is given, and so no entry about a different subject.
C29_AuditLogsBySubject ==
    (last.req.op = "GET /api/audit-logs" /\ last.status = 200 /\ last.req.s # None) =>
        /\ \A e \in last.body : e.targetUserId = last.req.s
        /\ last.body =
              {auditLogs[i] : i \in {k \in 1..Len(auditLogs) :
                  /\ auditLogs[k].targetUserId = last.req.s
                  /\ (last.req.n # -1 => auditLogs[k].createdAt >= last.req.n)}}

\* C23 as stated: after GET /api/session-status on a live session the
\* session's recorded lastActivity is the time of the query.
C23_StatusQueryIsActivity ==
    (last.req.op = "GET /api/session-status" /\ last.user # None /\ last.status = 200) =>
        \E a \in getSessionActivity(DB, last.req.sid) : a.lastActivity = last.time

\* C24, in a form that its statement implies, the last activity of a session
\* being the time of its last handled request: while the session still
\* carries that request's principal, m <= 30 minutes later, a status query of
\* the session answers 200 with valid = true and reports no more than 30 - m
\* remaining minutes.
C24_StatusReportsRemaining ==
    (/\ last.handled
     /\ last.user # None
     /\ Principal(DB, last.req.sid) = last.user
     /\ now - last.time <= SESSION_TIMEOUT_MINUTES) =>
        \A out \in {Route(Request("GET /api/session-status", last.req.sid, 0, 0, None),
                           DB, now, TRUE)} :
            /\ out.status = 200
            /\ \A x \in out.body :
                  /\ x.valid
                  /\ x.remainingMinutes <= SESSION_TIMEOUT_MINUTES - (now - last.time)

\* the rows of a session in the session_activity table, as positions
ActivityRows(sid) ==
    {i \in 1..Len(sessionActivity) : sessionActivity[i].sessionId = sid}

C27_GoalsAccessAndAuditAgree ==
    (/\ last.req.op = "GET /api/treatment-goals/:planId"
     /\ last.status = 200
     /\ last.audit # "failed") =>
        \A pl \in plans :
            (pl.id = last.req.n /\ pl.clientId # last.user) =>
                \E i \in 1..Len(auditLogs) :
                    /\ auditLogs[i].userId = last.user
                    /\ auditLogs[i].action = "view"
                    /\ auditLogs[i].resourceType = "treatment_goals"
                    /\ auditLogs[i].resourceId = ToString(last.req.n)
                    /\ auditLogs[i].targetUserId = pl.clientId

\* the notifications shown for reminder id, as positions in notifier.shown
ShownFor(n, id) == {i \in 1..Len(n.shown) : n.shown[i].id = id}

\* the reminder is in the query data, unsent, and its scheduled time is
\* within the next 5 minutes or passed less than 1 minute ago
Due(n, id) ==
    /\ id \in DOMAIN n.reminders
    /\ ~n.reminders[id].sent
    /\ n.reminders[id].scheduledTime - n.clock <= NOTIFICATION_WINDOW
    /\ n.reminders[id].scheduledTime - n.clock > -JUST_PASSED

\* C30: ReminderNotifier shows at most one notification per reminder id
\* during its lifetime; a notification is shown only for a reminder that was
\* not in notifiedIds, is not flagged sent and is due (scheduled within the
\* next 5 minutes or passed less than 1 minute ago), and its id is in
\* notifiedIds after the same step; an id once in notifiedIds stays.
C30_OneNotificationPerReminder ==
    /\ [](\A id \in ReminderIds : Cardinality(ShownFor(notifier, id)) <= 1)
    /\ [][/\ IsPrefix(notifier.shown, notifier'.shown)
          /\ notifier.notifiedIds \subseteq notifier'.notifiedIds
          /\ \A i \in (Len(notifier.shown) + 1)..Len(notifier'.shown) :
                /\ notifier'.shown[i].id \notin notifier.notifiedIds
                /\ notifier'.shown[i].id \in notifier'.notifiedIds
                /\ Due(notifier', notifier'.shown[i].id)]_vars

\* C30 witness: a reminder was notified at an earlier time, and the effect
\* has run again now over data in which it is still due.
C30_Witness ==
    \E i \in 1..Len(notifier.shown) :
        /\ notifier.shown[i].at < notifier.clock
        /\ notifier.lastRun = notifier.clock
        /\ Due(notifier, notifier.shown[i].id)
        /\ Cardinality(ShownFor(notifier, notifier.shown[i].id)) = 1

====
